---- MODULE Spec2Model ----
(***************************************************************************)
(* A model of finalyzer's natural-language query engine                    *)
(* (backend/services/query_engine.py) and of the collaborators it calls    *)
(* (backend/db/sqlite.py, backend/db/vector.py, backend/main.py).          *)
(*                                                                         *)
(* Text is modelled as a sequence of one-character strings, so that        *)
(* lower(), strip() and the substring test `a in b` are computed.          *)
(* Python's None and JSON null are the one value PyNone.                   *)
(***************************************************************************)
EXTENDS Integers, Sequences, FiniteSets, TLC

VARIABLES
    cache,      \* _intent_cache: the dict's items in insertion order
    now,        \* time.time(), in whole seconds
    last,       \* the cache operation that ran last (history variable)
    hist,       \* per normalized query text: the last put (history variable)
    steps,      \* operations run so far (bounds the exploration)
    tasks,      \* the calls of query_transactions, each at its await
    ledger      \* the ids of the rows the Ledger Store holds

vars == <<cache, now, last, hist, steps, tasks, ledger>>

(***************************************************************************)
(* Text                                                                    *)
(***************************************************************************)

UpperChars == <<"A","B","C","D","E","F","G","H","I","J","K","L","M",
                "N","O","P","Q","R","S","T","U","V","W","X","Y","Z">>

LowerChars == <<"a","b","c","d","e","f","g","h","i","j","k","l","m",
                "n","o","p","q","r","s","t","u","v","w","x","y","z">>

Whitespace == {" ", "\t", "\n", "\r"}

\* str.lower() on one character
LowerChar(ch) ==
    IF \E i \in 1..26 : UpperChars[i] = ch
    THEN LowerChars[CHOOSE i \in 1..26 : UpperChars[i] = ch]
    ELSE ch

\* str.lower()
Lower(s) == [i \in 1..Len(s) |-> LowerChar(s[i])]

\* str.strip(): surrounding whitespace removed
Strip(s) ==
    LET keep == {i \in 1..Len(s) : s[i] \notin Whitespace}
    IN  IF keep = {} THEN <<>>
        ELSE LET lo == CHOOSE i \in keep : \A j \in keep : i <= j
                 hi == CHOOSE i \in keep : \A j \in keep : j <= i
             IN  SubSeq(s, lo, hi)

Digits == <<"0","1","2","3","4","5","6","7","8","9">>

\* the substring test `sub in s`
Contains(s, sub) ==
    \E i \in 0..(Len(s) - Len(sub)) : SubSeq(s, i + 1, i + Len(sub)) = sub

\* str.startswith
StartsWith(s, pre) == Len(s) >= Len(pre) /\ SubSeq(s, 1, Len(pre)) = pre

(***************************************************************************)
(* JSON values and intents                                                 *)
(*   t: "missing" (key absent), "null", "str", "num", "bool", "list",      *)
(*      "obj"; s: the text of a str, the digits of a num, <<"1">>/<<>> of  *)
(*      a bool; l: the items of a list of strings.                         *)
(***************************************************************************)

JMissing == [t |-> "missing", s |-> <<>>, l |-> <<>>]
JNull == [t |-> "null", s |-> <<>>, l |-> <<>>]
JStr(s) == [t |-> "str", s |-> s, l |-> <<>>]
JNum(digits) == [t |-> "num", s |-> digits, l |-> <<>>]
JBool(b) == [t |-> "bool", s |-> IF b THEN <<"1">> ELSE <<>>, l |-> <<>>]
JList(items) == [t |-> "list", s |-> <<>>, l |-> items]

\* Python truthiness of a JSON value (a missing key reads as None)
Truthy(j) ==
    CASE j.t = "missing" -> FALSE
      [] j.t = "null" -> FALSE
      [] j.t = "str" -> j.s # <<>>
      [] j.t = "num" -> j.s # <<"0">>
      [] j.t = "bool" -> j.s # <<>>
      [] j.t = "list" -> j.l # <<>>
      [] OTHER -> TRUE

\* a dict with the intent's keys
IntentDict(cat, sd, ed, terms, total, qtype) ==
    [kind |-> "dict", category |-> cat, start_date |-> sd, end_date |-> ed,
     search_terms |-> terms, calculate_total |-> total, query_type |-> qtype]

\* a parsed JSON document that is not an object: null, a list, a number ...
NonDict(kind) ==
    [kind |-> kind, category |-> JMissing, start_date |-> JMissing,
     end_date |-> JMissing, search_terms |-> JMissing,
     calculate_total |-> JMissing, query_type |-> JMissing]

PyNone == NonDict("None")

\* the except branch of _analyze_query_intent
DefaultIntent ==
    IntentDict(JNull, JNull, JNull, JList(<<>>), JBool(TRUE),
               JStr(<<"s","e","a","r","c","h">>))

(***************************************************************************)
(* Dates: a date is its proleptic Gregorian ordinal (date.toordinal());    *)
(* NoDate stands for None                                                  *)
(***************************************************************************)

NoDate == 0

IsLeap(y) == (y % 4 = 0 /\ y % 100 # 0) \/ y % 400 = 0

DaysInMonth(y, m) ==
    CASE m \in {4, 6, 9, 11} -> 30
      [] m = 2 -> IF IsLeap(y) THEN 29 ELSE 28
      [] OTHER -> 31

DaysBeforeYear(y) ==
    LET p == y - 1 IN p * 365 + (p \div 4) - (p \div 100) + (p \div 400)

DaysBeforeMonth(y, m) ==
    <<0, 31, 59, 90, 120, 151, 181, 212, 243, 273, 304, 334>>[m]
        + (IF m > 2 /\ IsLeap(y) THEN 1 ELSE 0)

\* date(y, m, d)
Ordinal(y, m, d) == DaysBeforeYear(y) + DaysBeforeMonth(y, m) + d

YearOf(n) ==
    CHOOSE y \in (n \div 366)..((n \div 365) + 1) :
        DaysBeforeYear(y) < n /\ n <= DaysBeforeYear(y + 1)

MonthOf(n) ==
    LET y == YearOf(n)
        k == n - DaysBeforeYear(y)
    IN  CHOOSE m \in 1..12 :
            DaysBeforeMonth(y, m) < k /\ k <= DaysBeforeMonth(y, m) + DaysInMonth(y, m)

DayOf(n) == n - DaysBeforeYear(YearOf(n)) - DaysBeforeMonth(YearOf(n), MonthOf(n))

IsDigit(ch) == \E i \in 1..10 : Digits[i] = ch

DigitValue(ch) == (CHOOSE i \in 1..10 : Digits[i] = ch) - 1

DigitOf(n) == Digits[(n % 10) + 1]

\* date.isoformat()
IsoFormat(n) ==
    LET y == YearOf(n)
        m == MonthOf(n)
        d == DayOf(n)
    IN  <<DigitOf(y \div 1000), DigitOf(y \div 100), DigitOf(y \div 10),
          DigitOf(y), "-", DigitOf(m \div 10), DigitOf(m), "-",
          DigitOf(d \div 10), DigitOf(d)>>

\* date.fromisoformat(s) for a str s: the date, or NoDate where it raises
\* ValueError (the YYYY-MM-DD form every Python version accepts)
FromIsoFormat(s) ==
    IF /\ Len(s) = 10
       /\ s[5] = "-"
       /\ s[8] = "-"
       /\ \A i \in {1, 2, 3, 4, 6, 7, 9, 10} : IsDigit(s[i])
    THEN LET y == DigitValue(s[1]) * 1000 + DigitValue(s[2]) * 100
                    + DigitValue(s[3]) * 10 + DigitValue(s[4])
             m == DigitValue(s[6]) * 10 + DigitValue(s[7])
             d == DigitValue(s[9]) * 10 + DigitValue(s[10])
         IN  IF y >= 1 /\ m \in 1..12 /\ d >= 1 /\ d <= DaysInMonth(y, m)
             THEN Ordinal(y, m, d)
             ELSE NoDate
    ELSE NoDate

(***************************************************************************)
(* Transactions                                                            *)
(***************************************************************************)

\* the values of TransactionCategory
CategoryValues ==
  {
    <<"F","o","o","d"," ","&"," ","D","i","n","i","n","g">>,
    <<"S","h","o","p","p","i","n","g">>,
    <<"T","r","a","n","s","p","o","r","t","a","t","i","o","n">>,
    <<"E","n","t","e","r","t","a","i","n","m","e","n","t">>,
    <<"B","i","l","l","s"," ","&"," ","U","t","i","l","i","t","i","e","s">>,
    <<"T","r","a","v","e","l">>,
    <<"H","e","a","l","t","h">>,
    <<"G","r","o","c","e","r","i","e","s">>,
    <<"G","a","s">>,
    <<"S","u","b","s","c","r","i","p","t","i","o","n","s">>,
    <<"I","n","c","o","m","e">>,
    <<"T","r","a","n","s","f","e","r">>,
    <<"O","t","h","e","r">>
  }

NoCategory == <<>>

\* brands, in the order of the list in _extract_brand_keywords
Brands ==
  <<
    <<"u","b","e","r">>, <<"l","y","f","t">>, <<"g","r","a","b">>,
    <<"b","o","l","t">>, <<"g","o","j","e","k">>,
    <<"d","o","o","r","d","a","s","h">>, <<"g","r","u","b","h","u","b">>,
    <<"p","o","s","t","m","a","t","e","s">>,
    <<"u","b","e","r","e","a","t","s">>,
    <<"i","n","s","t","a","c","a","r","t">>,
    <<"s","t","a","r","b","u","c","k","s">>, <<"d","u","n","k","i","n">>,
    <<"c","h","i","p","o","t","l","e">>,
    <<"m","c","d","o","n","a","l","d">>,
    <<"c","h","i","c","k","-","f","i","l","-","a">>,
    <<"s","w","e","e","t","g","r","e","e","n">>,
    <<"p","a","n","e","r","a">>, <<"s","u","b","w","a","y">>,
    <<"w","e","n","d","y">>, <<"t","a","c","o"," ","b","e","l","l">>,
    <<"p","a","n","d","a"," ","e","x","p","r","e","s","s">>,
    <<"a","m","a","z","o","n">>, <<"t","a","r","g","e","t">>,
    <<"w","a","l","m","a","r","t">>, <<"c","o","s","t","c","o">>,
    <<"w","h","o","l","e"," ","f","o","o","d","s">>,
    <<"t","r","a","d","e","r"," ","j","o","e">>,
    <<"b","e","s","t"," ","b","u","y">>,
    <<"h","o","m","e"," ","d","e","p","o","t">>, <<"l","o","w","e","s">>,
    <<"i","k","e","a">>, <<"n","o","r","d","s","t","r","o","m">>,
    <<"m","a","c","y","s">>, <<"s","e","p","h","o","r","a">>,
    <<"u","l","t","a">>, <<"c","v","s">>,
    <<"w","a","l","g","r","e","e","n","s">>,
    <<"n","e","t","f","l","i","x">>, <<"s","p","o","t","i","f","y">>,
    <<"h","u","l","u">>, <<"d","i","s","n","e","y">>, <<"h","b","o">>,
    <<"a","p","p","l","e"," ","t","v">>, <<"p","e","a","c","o","c","k">>,
    <<"y","o","u","t","u","b","e">>, <<"a","u","d","i","b","l","e">>,
    <<"k","i","n","d","l","e">>, <<"a","i","r","b","n","b">>,
    <<"v","r","b","o">>, <<"m","a","r","r","i","o","t","t">>,
    <<"h","i","l","t","o","n">>, <<"h","y","a","t","t">>,
    <<"e","x","p","e","d","i","a">>,
    <<"b","o","o","k","i","n","g",".","c","o","m">>,
    <<"e","m","i","r","a","t","e","s">>, <<"a","l","a","s","k","a">>,
    <<"d","e","l","t","a">>, <<"u","n","i","t","e","d">>,
    <<"s","o","u","t","h","w","e","s","t">>,
    <<"a","m","e","r","i","c","a","n"," ","a","i","r","l","i","n","e","s">>,
    <<"j","e","t","b","l","u","e">>, <<"s","p","i","r","i","t">>,
    <<"f","r","o","n","t","i","e","r">>,
    <<"h","a","w","a","i","i","a","n">>,
    <<"a","i","r"," ","c","a","n","a","d","a">>,
    <<"b","r","i","t","i","s","h"," ","a","i","r","w","a","y","s">>,
    <<"s","h","e","l","l">>, <<"c","h","e","v","r","o","n">>,
    <<"e","x","x","o","n">>, <<"t","e","s","l","a">>, <<"b","p">>,
    <<"a","r","c","o">>, <<"a","p","p","l","e">>,
    <<"g","o","o","g","l","e">>, <<"m","i","c","r","o","s","o","f","t">>,
    <<"a","d","o","b","e">>, <<"g","i","t","h","u","b">>,
    <<"o","p","e","n","a","i">>, <<"c","h","a","t","g","p","t">>,
    <<"d","r","o","p","b","o","x">>, <<"z","o","o","m">>,
    <<"s","l","a","c","k">>, <<"p","e","l","o","t","o","n">>,
    <<"p","l","a","n","e","t"," ","f","i","t","n","e","s","s">>,
    <<"e","q","u","i","n","o","x">>, <<"a","t","&","t">>,
    <<"v","e","r","i","z","o","n">>, <<"t","-","m","o","b","i","l","e">>,
    <<"c","o","m","c","a","s","t">>, <<"x","f","i","n","i","t","y">>
  >>

\* brand_tags of _get_required_tags: <<phrase, tags>> in declared order
BrandTags ==
  <<
    <<<<"u","b","e","r"," ","e","a","t","s">>, <<<<"u","b","e","r">>>>>>,
    <<<<"u","b","e","r">>, <<<<"u","b","e","r">>>>>>,
    <<<<"l","y","f","t">>, <<<<"l","y","f","t">>>>>>,
    <<<<"g","r","a","b">>, <<<<"g","r","a","b">>>>>>,
    <<<<"e","m","i","r","a","t","e","s">>, <<<<"a","i","r","l","i","n","e">>>>>>,
    <<<<"a","l","a","s","k","a"," ","a","i","r">>, <<<<"a","i","r","l","i","n","e">>>>>>,
    <<<<"d","e","l","t","a">>, <<<<"a","i","r","l","i","n","e">>>>>>,
    <<<<"u","n","i","t","e","d">>, <<<<"a","i","r","l","i","n","e">>>>>>,
    <<<<"s","o","u","t","h","w","e","s","t">>, <<<<"a","i","r","l","i","n","e">>>>>>,
    <<<<"a","m","e","r","i","c","a","n"," ","a","i","r","l","i","n","e","s">>, <<<<"a","i","r","l","i","n","e">>>>>>,
    <<<<"j","e","t","b","l","u","e">>, <<<<"a","i","r","l","i","n","e">>>>>>,
    <<<<"s","t","a","r","b","u","c","k","s">>, <<<<"s","t","a","r","b","u","c","k","s">>>>>>,
    <<<<"d","u","n","k","i","n">>, <<<<"d","u","n","k","i","n">>>>>>,
    <<<<"p","e","e","t","s">>, <<<<"p","e","e","t","s">>>>>>,
    <<<<"a","m","a","z","o","n">>, <<<<"a","m","a","z","o","n">>>>>>,
    <<<<"t","a","r","g","e","t">>, <<<<"t","a","r","g","e","t">>>>>>,
    <<<<"w","a","l","m","a","r","t">>, <<<<"w","a","l","m","a","r","t">>>>>>,
    <<<<"c","o","s","t","c","o">>, <<<<"c","o","s","t","c","o">>>>>>
  >>

\* category_tags of _get_required_tags: <<phrase, tags>> in declared order
CategoryTags ==
  <<
    <<<<"a","i","r","l","i","n","e">>, <<<<"a","i","r","l","i","n","e">>, <<"f","l","i","g","h","t">>>>>>,
    <<<<"a","i","r","l","i","n","e","s">>, <<<<"a","i","r","l","i","n","e">>, <<"f","l","i","g","h","t">>>>>>,
    <<<<"f","l","i","g","h","t">>, <<<<"a","i","r","l","i","n","e">>, <<"f","l","i","g","h","t">>>>>>,
    <<<<"f","l","i","g","h","t","s">>, <<<<"a","i","r","l","i","n","e">>, <<"f","l","i","g","h","t">>>>>>,
    <<<<"p","l","a","n","e">>, <<<<"a","i","r","l","i","n","e">>, <<"f","l","i","g","h","t">>>>>>,
    <<<<"r","i","d","e","s","h","a","r","e">>, <<<<"r","i","d","e","s","h","a","r","e">>>>>>,
    <<<<"r","i","d","e"," ","s","h","a","r","e">>, <<<<"r","i","d","e","s","h","a","r","e">>>>>>,
    <<<<"t","a","x","i">>, <<<<"r","i","d","e","s","h","a","r","e">>>>>>,
    <<<<"h","o","t","e","l">>, <<<<"h","o","t","e","l">>, <<"l","o","d","g","i","n","g">>, <<"a","c","c","o","m","m","o","d","a","t","i","o","n">>>>>>,
    <<<<"h","o","t","e","l","s">>, <<<<"h","o","t","e","l">>, <<"l","o","d","g","i","n","g">>, <<"a","c","c","o","m","m","o","d","a","t","i","o","n">>>>>>,
    <<<<"l","o","d","g","i","n","g">>, <<<<"h","o","t","e","l">>, <<"l","o","d","g","i","n","g">>, <<"a","c","c","o","m","m","o","d","a","t","i","o","n">>>>>>,
    <<<<"a","c","c","o","m","m","o","d","a","t","i","o","n">>, <<<<"h","o","t","e","l">>, <<"l","o","d","g","i","n","g">>, <<"a","c","c","o","m","m","o","d","a","t","i","o","n">>>>>>,
    <<<<"a","i","r","b","n","b">>, <<<<"a","i","r","b","n","b">>, <<"a","c","c","o","m","m","o","d","a","t","i","o","n">>>>>>,
    <<<<"c","o","f","f","e","e">>, <<<<"c","o","f","f","e","e">>>>>>,
    <<<<"s","u","b","s","c","r","i","p","t","i","o","n">>, <<<<"s","u","b","s","c","r","i","p","t","i","o","n">>>>>>,
    <<<<"s","u","b","s","c","r","i","p","t","i","o","n","s">>, <<<<"s","u","b","s","c","r","i","p","t","i","o","n">>>>>>,
    <<<<"s","t","r","e","a","m","i","n","g">>, <<<<"s","t","r","e","a","m","i","n","g">>>>>>,
    <<<<"g","r","o","c","e","r","y">>, <<<<"g","r","o","c","e","r","i","e","s">>>>>>,
    <<<<"g","r","o","c","e","r","i","e","s">>, <<<<"g","r","o","c","e","r","i","e","s">>>>>>,
    <<<<"s","u","p","e","r","m","a","r","k","e","t">>, <<<<"g","r","o","c","e","r","i","e","s">>, <<"s","u","p","e","r","m","a","r","k","e","t">>>>>>,
    <<<<"f","o","o","d"," ","d","e","l","i","v","e","r","y">>, <<<<"d","e","l","i","v","e","r","y">>>>>>,
    <<<<"d","e","l","i","v","e","r","y">>, <<<<"d","e","l","i","v","e","r","y">>>>>>,
    <<<<"d","o","o","r","d","a","s","h">>, <<<<"d","o","o","r","d","a","s","h">>, <<"d","e","l","i","v","e","r","y">>>>>>,
    <<<<"g","r","u","b","h","u","b">>, <<<<"g","r","u","b","h","u","b">>, <<"d","e","l","i","v","e","r","y">>>>>>
  >>

\* generic_category_terms of _get_relevant_transactions
GenericCategoryTerms ==
  {
    <<"a","c","c","o","m","m","o","d","a","t","i","o","n">>,
    <<"a","i","r","l","i","n","e","s">>, <<"a","i","r","l","i","n","e">>,
    <<"c","a","f","e">>, <<"c","o","f","f","e","e">>,
    <<"d","i","n","i","n","g">>, <<"f","l","i","g","h","t","s">>,
    <<"f","l","i","g","h","t">>, <<"f","o","o","d">>, <<"f","u","e","l">>,
    <<"g","a","s">>, <<"g","r","o","c","e","r","i","e","s">>,
    <<"g","r","o","c","e","r","y">>, <<"h","o","t","e","l","s">>,
    <<"h","o","t","e","l">>, <<"l","o","d","g","i","n","g">>,
    <<"r","e","s","t","a","u","r","a","n","t","s">>,
    <<"r","e","s","t","a","u","r","a","n","t">>,
    <<"r","i","d","e","s","h","a","r","e">>,
    <<"s","u","b","s","c","r","i","p","t","i","o","n","s">>,
    <<"s","u","b","s","c","r","i","p","t","i","o","n">>,
    <<"s","u","p","e","r","m","a","r","k","e","t">>,
    <<"t","r","a","n","s","p","o","r","t","a","t","i","o","n">>
  }

\* pattern 1 of the airline test
AirlineWords ==
  {
    <<"a","i","r","l","i","n","e">>, <<"a","i","r","w","a","y","s">>,
    <<" ","a","i","r"," ","l","i","n","e","s">>
  }

\* airline_with_air
AirlineWithAir ==
  {
    <<"d","e","l","t","a"," ","a","i","r">>,
    <<"u","n","i","t","e","d"," ","a","i","r">>,
    <<"a","m","e","r","i","c","a","n"," ","a","i","r">>,
    <<"s","o","u","t","h","w","e","s","t"," ","a","i","r">>,
    <<"a","l","a","s","k","a"," ","a","i","r">>,
    <<"e","m","i","r","a","t","e","s"," ","a","i">>,
    <<"e","t","i","h","a","d"," ","a","i","r">>,
    <<"q","a","t","a","r"," ","a","i","r">>,
    <<"a","i","r"," ","c","a","n","a","d","a">>,
    <<"a","i","r"," ","f","r","a","n","c","e">>,
    <<"a","i","r"," ","i","n","d","i","a">>,
    <<"a","i","r","-","i","n","d","i","a">>,
    <<"a","i","r"," ","c","h","i","n","a">>,
    <<"b","r","i","t","i","s","h"," ","a","i","r">>,
    <<"v","i","r","g","i","n"," ","a","i","r">>,
    <<"h","a","w","a","i","i","a","n"," ","a","i","r">>,
    <<"s","p","i","r","i","t"," ","a","i","r">>,
    <<"f","r","o","n","t","i","e","r"," ","a","i","r">>,
    <<"n","o","r","w","e","g","i","a","n"," ","a","i","r">>
  }

\* budget_airlines
BudgetAirlines ==
  {
    <<"j","e","t","b","l","u","e">>, <<"r","y","a","n","a","i","r">>,
    <<"e","a","s","y","j","e","t">>, <<"a","i","r","a","s","i","a">>
  }

\* `x in xs` for a list
InList(xs, x) == \E i \in 1..Len(xs) : xs[i] = x

\* _extract_brand_keywords
ExtractBrandKeywords(query) ==
    SelectSeq(Brands, LAMBDA b : Contains(Lower(query), b))

\* the tags of the first phrase of an ordered table that the query contains
FirstMatch(table, query) ==
    LET hits == {i \in 1..Len(table) : Contains(query, table[i][1])}
    IN  IF hits = {} THEN <<>>
        ELSE table[CHOOSE i \in hits : \A j \in hits : i <= j][2]

\* _get_required_tags
GetRequiredTags(query) ==
    IF \E i \in 1..Len(BrandTags) : Contains(query, BrandTags[i][1])
    THEN FirstMatch(BrandTags, query)
    ELSE FirstMatch(CategoryTags, query)

\* the airline branch of _has_required_tags
IsAirlineDescription(desc) ==
    \/ \E w \in AirlineWords : Contains(desc, w)
    \/ \E p \in AirlineWithAir : Contains(desc, p)
    \/ \E a \in BudgetAirlines : Contains(desc, a)

\* the generic branch of _has_required_tags
MatchesTagOrDescription(txn, required) ==
    \/ \E i \in 1..Len(required) : Contains(Lower(txn.description), Lower(required[i]))
    \/ \E i \in 1..Len(required) :
          \E j \in 1..Len(txn.tags) : Lower(txn.tags[j]) = Lower(required[i])

\* _has_required_tags without the airline branch
HasRequiredTagsGeneric(txn, required) ==
    IF required = <<>> THEN TRUE ELSE MatchesTagOrDescription(txn, required)

\* _has_required_tags
HasRequiredTags(txn, required) ==
    IF required = <<>> THEN TRUE
    ELSE IF InList(required, <<"a","i","r","l","i","n","e">>)
            /\ InList(required, <<"f","l","i","g","h","t">>)
         THEN IsAirlineDescription(Lower(txn.description))
         ELSE MatchesTagOrDescription(txn, required)

(***************************************************************************)
(* parse_relative_date                                                     *)
(***************************************************************************)

\* date.weekday(): Monday is 0
Weekday(n) == (n + 6) % 7

\* int() of a run of digits
RECURSIVE IntOf(_)
IntOf(ds) ==
    IF ds = <<>> THEN 0
    ELSE IntOf(SubSeq(ds, 1, Len(ds) - 1)) * 10 + DigitValue(ds[Len(ds)])

\* s holds word at index i
WordAt(s, i, word) ==
    i >= 1 /\ i + Len(word) - 1 <= Len(s) /\ SubSeq(s, i, i + Len(word) - 1) = word

\* the index after the longest run of characters of class at index i
RECURSIVE RunEnd(_, _, _)
RunEnd(s, i, class) ==
    IF i <= Len(s) /\ s[i] \in class THEN RunEnd(s, i + 1, class) ELSE i

DigitChars == {Digits[i] : i \in 1..10}

\* (?:last|past)\s+(\d+)\s+unit matched at index i: the digits, or <<>>
CountAt(s, i, unit) ==
    IF WordAt(s, i, <<"l","a","s","t">>) \/ WordAt(s, i, <<"p","a","s","t">>)
    THEN LET a == RunEnd(s, i + 4, Whitespace)
             b == RunEnd(s, a, DigitChars)
             c == RunEnd(s, b, Whitespace)
         IN  IF a > i + 4 /\ b > a /\ c > b /\ WordAt(s, c, unit)
             THEN SubSeq(s, a, b - 1)
             ELSE <<>>
    ELSE <<>>

\* re.search of the pattern: the digits of the leftmost match, or <<>>
CountSearch(s, unit) ==
    LET at == {i \in 1..Len(s) : CountAt(s, i, unit) # <<>>}
    IN  IF at = {} THEN <<>>
        ELSE CountAt(s, CHOOSE i \in at : \A j \in at : i <= j, unit)

\* today - timedelta(days=n): OverflowError outside date.min..date.max
DaysAgo(today, n) ==
    IF today - n >= 1
    THEN [err |-> "none", start |-> today - n, end |-> today]
    ELSE [err |-> "OverflowError", start |-> NoDate, end |-> NoDate]

\* the dict month_names in its order
MonthNames ==
    << << <<"j","a","n","u","a","r","y">>, 1 >>, << <<"f","e","b","r","u","a","r","y">>, 2 >>, << <<"m","a","r","c","h">>, 3 >>,
       << <<"a","p","r","i","l">>, 4 >>, << <<"m","a","y">>, 5 >>, << <<"j","u","n","e">>, 6 >>,
       << <<"j","u","l","y">>, 7 >>, << <<"a","u","g","u","s","t">>, 8 >>, << <<"s","e","p","t","e","m","b","e","r">>, 9 >>,
       << <<"o","c","t","o","b","e","r">>, 10 >>, << <<"n","o","v","e","m","b","e","r">>, 11 >>, << <<"d","e","c","e","m","b","e","r">>, 12 >>,
       << <<"j","a","n">>, 1 >>, << <<"f","e","b">>, 2 >>, << <<"m","a","r">>, 3 >>, << <<"a","p","r">>, 4 >>,
       << <<"j","u","n">>, 6 >>, << <<"j","u","l">>, 7 >>, << <<"a","u","g">>, 8 >>, << <<"s","e","p">>, 9 >>,
       << <<"s","e","p","t">>, 9 >>, << <<"o","c","t">>, 10 >>, << <<"n","o","v">>, 11 >>, << <<"d","e","c">>, 12 >> >>

Prepositions == << <<"i","n">>, <<"d","u","r","i","n","g">>, <<"f","o","r">> >>

\* (?:in|during|for)\s+name(?:\s+(\d{4}))? matched at index i: whether it
\* matches, and the digits of the year group (<<>> for no group)
MonthAt(s, i, name) ==
    LET ps == {k \in 1..3 : WordAt(s, i, Prepositions[k])}
    IN  IF ps = {} THEN [found |-> FALSE, year |-> <<>>]
        ELSE LET p == Prepositions[CHOOSE k \in ps : \A j \in ps : k <= j]
                 a == RunEnd(s, i + Len(p), Whitespace)
                 e == a + Len(name)
                 y == RunEnd(s, e, Whitespace)
             IN  IF a > i + Len(p) /\ WordAt(s, a, name)
                 THEN [found |-> TRUE,
                       year |-> IF y > e /\ y + 3 <= Len(s)
                                   /\ \A k \in y..(y + 3) : s[k] \in DigitChars
                                THEN SubSeq(s, y, y + 3) ELSE <<>>]
                 ELSE [found |-> FALSE, year |-> <<>>]

\* re.search of the month pattern: the leftmost match
MonthSearch(s, name) ==
    LET at == {i \in 1..Len(s) : MonthAt(s, i, name).found}
    IN  IF at = {} THEN [found |-> FALSE, year |-> <<>>]
        ELSE MonthAt(s, CHOOSE i \in at : \A j \in at : i <= j, name)

\* the body of the loop over month_names for the first name that matches
MonthRange(today, monthNum, yearDigits) ==
    LET year == IF yearDigits # <<>> THEN IntOf(yearDigits)
                ELSE IF monthNum > MonthOf(today) THEN YearOf(today) - 1
                ELSE YearOf(today)
    IN  IF year < 1 THEN [err |-> "ValueError", start |-> NoDate, end |-> NoDate]
        ELSE [err |-> "none", start |-> Ordinal(year, monthNum, 1),
              end |-> IF monthNum = 12 THEN Ordinal(year, 12, 31)
                      ELSE Ordinal(year, monthNum + 1, 1) - 1]

RelDates(start, end) == [err |-> "none", start |-> start, end |-> end]

\* parse_relative_date with "last month" taken as the thirty days before
\* this month
ParseRelativeDateThirtyDays(query, today) ==
    LET firstOfMonth == Ordinal(YearOf(today), MonthOf(today), 1)
    IN  IF Contains(Lower(query), <<"l","a","s","t"," ","m","o","n","t","h">>)
        THEN RelDates(firstOfMonth - 30, firstOfMonth - 1)
        ELSE RelDates(NoDate, NoDate)

\* parse_relative_date(query) on the day today
ParseRelativeDate(query, today) ==
    LET q == Lower(query)
        y == YearOf(today)
        firstOfMonth == Ordinal(y, MonthOf(today), 1)
        days == CountSearch(q, <<"d","a","y">>)
        weeks == CountSearch(q, <<"w","e","e","k">>)
        months == CountSearch(q, <<"m","o","n","t","h">>)
        hits == {k \in 1..Len(MonthNames) : MonthSearch(q, MonthNames[k][1]).found}
    IN  IF Contains(q, <<"y","e","s","t","e","r","d","a","y">>) THEN RelDates(today - 1, today - 1)
        ELSE IF Contains(q, <<"t","o","d","a","y">>) /\ ~Contains(q, <<"t","o"," ","d","a","t","e">>) THEN RelDates(today, today)
        ELSE IF Contains(q, <<"t","h","i","s"," ","w","e","e","k">>) THEN RelDates(today - Weekday(today), today)
        ELSE IF Contains(q, <<"l","a","s","t"," ","w","e","e","k">>) THEN
                RelDates(today - (Weekday(today) + 7), today - (Weekday(today) + 7) + 6)
        ELSE IF Contains(q, <<"t","h","i","s"," ","m","o","n","t","h">>) THEN RelDates(firstOfMonth, today)
        ELSE IF Contains(q, <<"l","a","s","t"," ","m","o","n","t","h">>) THEN
                RelDates(Ordinal(YearOf(firstOfMonth - 1), MonthOf(firstOfMonth - 1), 1),
                         firstOfMonth - 1)
        ELSE IF Contains(q, <<"t","h","i","s"," ","y","e","a","r">>) THEN RelDates(Ordinal(y, 1, 1), today)
        ELSE IF Contains(q, <<"l","a","s","t"," ","y","e","a","r">>) THEN
                RelDates(Ordinal(y - 1, 1, 1), Ordinal(y - 1, 12, 31))
        ELSE IF Contains(q, <<"y","e","a","r"," ","t","o"," ","d","a","t","e">>) \/ Contains(q, <<"y","t","d">>) THEN
                RelDates(Ordinal(y, 1, 1), today)
        ELSE IF days # <<>> THEN DaysAgo(today, IntOf(days))
        ELSE IF weeks # <<>> THEN DaysAgo(today, IntOf(weeks) * 7)
        ELSE IF months # <<>> THEN DaysAgo(today, IntOf(months) * 30)
        ELSE IF hits # {} THEN
                LET k == CHOOSE i \in hits : \A j \in hits : i <= j
                IN  MonthRange(today, MonthNames[k][2],
                               MonthSearch(q, MonthNames[k][1]).year)
        ELSE RelDates(NoDate, NoDate)

(***************************************************************************)
(* binary64 sums.  A float between 2^-6 and 2^31 is a whole number of      *)
(* units of 2^-64 with at most 53 significant bits; it is kept as that     *)
(* number, in eight limbs of twelve bits, lowest first.                    *)
(***************************************************************************)

LimbBase == 2^12

LimbIds == 1..8

\* the number whose limbs are limb[1] .. limb[8], each worked out once
Limbs(limb) ==
    <<limb[1], limb[2], limb[3], limb[4], limb[5], limb[6], limb[7], limb[8]>>

\* the limb at place j, 0 outside the number
LimbAt(x, j) == IF j \in LimbIds THEN x[j] ELSE 0

\* 0 and 0.0
Zero64 == <<0, 0, 0, 0, 0, 0, 0, 0>>

\* a small integer as a number of limbs
BigOf(n) ==
    <<n % LimbBase, (n \div LimbBase) % LimbBase, n \div (LimbBase * LimbBase),
      0, 0, 0, 0, 0>>

RECURSIVE AddCarry(_, _, _)
AddCarry(x, y, i) ==
    IF i = 1 THEN 0 ELSE (x[i - 1] + y[i - 1] + AddCarry(x, y, i - 1)) \div LimbBase

BigAdd(x, y) ==
    LET limb == [i \in LimbIds |-> (x[i] + y[i] + AddCarry(x, y, i)) % LimbBase]
    IN  Limbs(limb)

RECURSIVE MulCarry(_, _, _)
MulCarry(x, n, i) ==
    IF i = 1 THEN 0 ELSE (x[i - 1] * n + MulCarry(x, n, i - 1)) \div LimbBase

\* x * n for a small n
BigMulSmall(x, n) ==
    LET limb == [i \in LimbIds |-> (x[i] * n + MulCarry(x, n, i)) % LimbBase]
    IN  Limbs(limb)

\* x * 2^k
BigShl(x, k) ==
    LET q == k \div 12
        r == k % 12
        limb == [i \in LimbIds |-> ((LimbAt(x, i - q) * 2^r) % LimbBase)
                   + ((LimbAt(x, i - q - 1) * 2^r) \div LimbBase)]
    IN  Limbs(limb)

\* x \div 2^k
BigShr(x, k) ==
    LET q == k \div 12
        r == k % 12
        limb == [i \in LimbIds |-> (LimbAt(x, i + q) \div 2^r)
                   + ((LimbAt(x, i + q + 1) % 2^r) * 2^(12 - r))]
    IN  Limbs(limb)

\* the remainder carried into limb i by the division by d, from the top
RECURSIVE DivRem(_, _, _)
DivRem(x, d, i) ==
    IF i = 8 THEN 0 ELSE (DivRem(x, d, i + 1) * LimbBase + x[i + 1]) % d

\* x \div d and x % d for a small d
BigDivSmall(x, d) ==
    LET limb == [i \in LimbIds |-> (DivRem(x, d, i) * LimbBase + x[i]) \div d]
    IN  [q |-> Limbs(limb), r |-> (DivRem(x, d, 1) * LimbBase + x[1]) % d]

\* bit n of x, bit 0 the lowest
BigBit(x, n) == (x[(n \div 12) + 1] \div 2^(n % 12)) % 2

\* some bit below bit n is set
BigAnyBelow(x, n) == \E j \in 0..(n - 1) : BigBit(x, j) = 1

\* the number of significant bits of x
BigBitLen(x) ==
    IF \A i \in LimbIds : x[i] = 0 THEN 0
    ELSE LET top == CHOOSE i \in LimbIds : x[i] # 0 /\ \A j \in LimbIds : j > i => x[j] = 0
             bits == CHOOSE b \in 1..12 : 2^(b - 1) <= x[top] /\ x[top] < 2^b
         IN  12 * (top - 1) + bits

BigLeq(x, y) ==
    \/ x = y
    \/ \E i \in LimbIds : x[i] < y[i] /\ \A j \in LimbIds : j > i => x[j] = y[j]

\* round to nearest, ties to even, at 53 significant bits; sticky says that
\* the exact value lies above x by less than one unit
Round53(x, sticky) ==
    LET k == BigBitLen(x) - 53
    IN  IF k <= 0 THEN x
        ELSE LET q == BigShr(x, k)
                 up == /\ BigBit(x, k - 1) = 1
                       /\ \/ sticky
                          \/ BigAnyBelow(x, k - 1)
                          \/ BigBit(q, 0) = 1
             IN  BigShl(IF up THEN BigAdd(q, BigOf(1)) ELSE q, k)

\* the float of an amount of so many cents: the binary64 number nearest to
\* cents / 100
F64(cents) ==
    LET d == BigDivSmall(BigShl(BigOf(cents), 64), 100)
    IN  Round53(d.q, d.r # 0)

\* a + b in binary64, for a and b not negative
FAdd(a, b) == Round53(BigAdd(a, b), FALSE)

(***************************************************************************)
(* The Ledger Store (backend/db/sqlite.py) over a table of transactions    *)
(***************************************************************************)

\* the rows a ledger may hold, in rowid order; amounts are in cents
Txns ==
  <<
    [id |-> 1, description |-> <<"U","B","E","R"," ","T","R","I","P">>,
     tags |-> << <<"u","b","e","r">>, <<"r","i","d","e","s","h","a","r","e">> >>,
     category |-> <<"T","r","a","n","s","p","o","r","t","a","t","i","o","n">>, date |-> Ordinal(2024, 3, 10),
     amount |-> -3000, source |-> "chase_credit"],
    [id |-> 2, description |-> <<"U","B","E","R","E","A","T","S"," ","1","2","3">>,
     tags |-> << <<"u","b","e","r">>, <<"d","e","l","i","v","e","r","y">> >>,
     category |-> <<"F","o","o","d"," ","&"," ","D","i","n","i","n","g">>, date |-> Ordinal(2025, 1, 5),
     amount |-> -2000, source |-> "amex"],
    [id |-> 3, description |-> <<"L","Y","F","T"," ","R","I","D","E">>,
     tags |-> << <<"l","y","f","t">>, <<"r","i","d","e","s","h","a","r","e">> >>,
     category |-> <<"T","r","a","n","s","p","o","r","t","a","t","i","o","n">>, date |-> Ordinal(2024, 3, 10),
     amount |-> -2500, source |-> "chase_credit"],
    [id |-> 4, description |-> <<"S","S","P"," ","E","M","I","R","A","T","E","S">>,
     tags |-> << <<"t","r","a","v","e","l">>, <<"a","i","r","l","i","n","e">>, <<"f","l","i","g","h","t">> >>,
     category |-> <<"T","r","a","v","e","l">>, date |-> Ordinal(2024, 2, 1),
     amount |-> -1200, source |-> "amex"],
    [id |-> 5, description |-> <<"E","M","I","R","A","T","E","S"," ","A","I"," ","1","7">>,
     tags |-> << >>,
     category |-> <<"T","r","a","v","e","l">>, date |-> Ordinal(2024, 2, 20),
     amount |-> -90000, source |-> "chase_credit"],
    [id |-> 6, description |-> <<"N","E","T","F","L","I","X",".","C","O","M">>,
     tags |-> << <<"n","e","t","f","l","i","x">>, <<"s","u","b","s","c","r","i","p","t","i","o","n">> >>,
     category |-> NoCategory, date |-> Ordinal(2024, 3, 15),
     amount |-> 1500, source |-> "coinbase"]
  >>

\* how many further rows the table holds, all of one merchant
BulkRows == 205

\* a further row: the dates run over sixty days of two years, out of rowid
\* order; every fifth row is a refund
BulkTxn(id) ==
    [id |-> id, description |-> <<"S","W","E","E","T","G","R","E","E","N"," ","N","Y","C">>,
     tags |-> << <<"s","a","l","a","d">>, <<"r","e","s","t","a","u","r","a","n","t">> >>,
     category |-> <<"F","o","o","d"," ","&"," ","D","i","n","i","n","g">>,
     date |-> Ordinal(2024, 1, 1) + ((id * 7) % 60) + 366 * (id % 2),
     amount |-> (IF id % 5 = 0 THEN 1 ELSE -1) * (1210 + 115 * (id % 4)),
     source |-> "amex"]

Txn(id) == IF id <= Len(Txns) THEN Txns[id] ELSE BulkTxn(id)

TxnIds == [i \in 1..(Len(Txns) + BulkRows) |-> i]

\* the first n further rows
Bulk(n) == (Len(Txns) + 1)..(Len(Txns) + n)

Min(a, b) == IF a < b THEN a ELSE b

\* ",".join(tags): the tags column
RECURSIVE JoinTags(_)
JoinTags(tags) ==
    IF tags = <<>> THEN <<>>
    ELSE IF Len(tags) = 1 THEN tags[1]
    ELSE tags[1] \o <<",">> \o JoinTags(Tail(tags))

\* column LIKE '%term%': SQLite compares ASCII letters without case
Like(text, term) == Contains(Lower(text), Lower(term))

\* ORDER BY date DESC over rows in rowid order
ByDateDesc(ids) == SortSeq(ids, LAMBDA a, b : Txn(a).date > Txn(b).date)

\* LIMIT n
Limit(rows, n) == SubSeq(rows, 1, Min(n, Len(rows)))

\* db.search_transactions: a row without tags holds NULL in the tags column
SearchTransactions(held, term, limit) ==
    Limit(ByDateDesc(SelectSeq(TxnIds, LAMBDA i :
              /\ i \in held
              /\ \/ Like(Txn(i).description, term)
                 \/ Txn(i).tags # <<>> /\ Like(JoinTags(Txn(i).tags), term))),
          limit)

\* db.get_transactions_by_ids
GetTransactionsByIds(held, ids) ==
    IF ids = <<>> THEN <<>>
    ELSE ByDateDesc(SelectSeq(TxnIds, LAMBDA i : i \in held /\ InList(ids, i)))

\* db.get_all_transactions(start_date, end_date, category, limit)
GetAllTransactions(held, start, end, category, limit) ==
    Limit(ByDateDesc(SelectSeq(TxnIds, LAMBDA i :
              /\ i \in held
              /\ start # NoDate => Txn(i).date >= start
              /\ end # NoDate => Txn(i).date <= end
              /\ category # NoCategory => Txn(i).category = category)),
          limit)

(***************************************************************************)
(* The Semantic Index (backend/db/vector.py)                               *)
(***************************************************************************)

\* the category stored in the index's metadata
IndexCategory(txn) ==
    IF txn.category = NoCategory THEN <<"U","n","k","n","o","w","n">> ELSE txn.category

\* VectorStore.search: what the collection returned, given how the
\* embedding call and the collection query went.  outcome.ids are the ids
\* the collection ranks nearest; category_filter (a JSON value) keeps the
\* ones whose metadata category equals it
VectorSearch(outcome, categoryFilter, nResults) ==
    IF outcome.embedding = "fails" THEN [raised |-> FALSE, ids |-> <<>>]
    ELSE IF outcome.query = "fails" THEN [raised |-> TRUE, ids |-> <<>>]
    ELSE [raised |-> FALSE,
          ids |-> Limit(SelectSeq(outcome.ids, LAMBDA i :
                     Truthy(categoryFilter) =>
                        /\ categoryFilter.t = "str"
                        /\ i \in DOMAIN TxnIds
                        /\ IndexCategory(Txn(i)) = categoryFilter.s),
                   nResults)]

(***************************************************************************)
(* _analyze_query_intent                                                   *)
(***************************************************************************)

\* A reply of the LLM call: it raises (also on timeout), or carries a
\* content that is None or a text.  A text is a sequence of pieces: "fence" (three backticks),
\* "json", whitespace, "DOC" (a JSON document, whose parse is reply.doc)
\* and "text" (any other words).
ContentSpace == {" ", "\n"}

\* content.strip()
StripPieces(c) ==
    LET keep == {i \in 1..Len(c) : c[i] \notin ContentSpace}
    IN  IF keep = {} THEN <<>>
        ELSE SubSeq(c, CHOOSE i \in keep : \A j \in keep : i <= j,
                       CHOOSE i \in keep : \A j \in keep : j <= i)

\* content.split("fence")[1] for a content that starts with the fence
AfterFence(c) ==
    LET rest == Tail(c)
        ends == {i \in 1..Len(rest) : rest[i] = "fence"}
    IN  IF ends = {} THEN rest
        ELSE SubSeq(rest, 1, (CHOOSE i \in ends : \A j \in ends : i <= j) - 1)

\* the text handed to json.loads
JsonText(content) ==
    LET c == StripPieces(content)
    IN  IF c # <<>> /\ Head(c) = "fence"
        THEN LET inner == AfterFence(c)
             IN  StripPieces(IF inner # <<>> /\ Head(inner) = "json"
                             THEN Tail(inner) ELSE inner)
        ELSE c

\* json.loads: the document, or "invalid" where it raises
JsonLoads(text, doc) ==
    IF SelectSeq(text, LAMBDA p : p \notin ContentSpace) = <<"DOC">>
    THEN doc
    ELSE NonDict("invalid")

\* the value returned, and whether the except branch ran
AnalyzeQueryIntent(reply) ==
    IF reply.raises \/ reply.content = <<"None">>
    THEN [intent |-> DefaultIntent, caught |-> TRUE]
    ELSE LET v == JsonLoads(JsonText(reply.content), reply.doc)
         IN  IF v.kind = "invalid"
             THEN [intent |-> DefaultIntent, caught |-> TRUE]
             ELSE [intent |-> v, caught |-> FALSE]

(***************************************************************************)
(* _get_relevant_transactions                                              *)
(***************************************************************************)

BrandSearchLimit == 1000

TermSearchLimit == 500

SemanticResults == 200

CategoryFetchLimit == 500

FewResults == 50

ResultLimit == 200

\* date.fromisoformat(intent[key]) under "if intent.get(key)": a truthy
\* value that is no str raises TypeError, which the try does not catch
ParseDateField(j) ==
    IF ~Truthy(j) THEN [err |-> "none", date |-> NoDate]
    ELSE IF j.t = "str" THEN [err |-> "none", date |-> FromIsoFormat(j.s)]
    ELSE [err |-> "TypeError", date |-> NoDate]

\* TransactionCategory(intent["category"]) under "if intent.get(category)":
\* every value that is no member raises ValueError, which is caught
ParseCategoryField(j) ==
    IF Truthy(j) /\ j.t = "str" /\ j.s \in CategoryValues THEN j.s
    ELSE NoCategory

\* iterating intent.get("search_terms", []): a str yields its characters,
\* None and numbers raise TypeError
SearchTerms(j) ==
    CASE j.t = "missing" -> [err |-> "none", terms |-> <<>>]
      [] j.t = "list" -> [err |-> "none", terms |-> j.l]
      [] j.t = "str" -> [err |-> "none", terms |-> [i \in 1..Len(j.s) |-> <<j.s[i]>>]]
      [] OTHER -> [err |-> "TypeError", terms |-> <<>>]

\* every match appended, seen or not
AddAll(acc, matches) == acc \o matches

\* the two halves of a list: a loop over the list is the loop over the
\* first half followed by the loop over the second
FirstHalf(xs) == SubSeq(xs, 1, Len(xs) \div 2)

SecondHalf(xs) == SubSeq(xs, (Len(xs) \div 2) + 1, Len(xs))

\* the value b, taken once the value a has been worked out: the second
\* half of a loop starts from the finished result of the first
After(a, b) == IF a = a THEN b ELSE b

\* for txn in matches: if str(txn.id) not in seen_ids: add and append
RECURSIVE AddNew(_, _)
AddNew(acc, matches) ==
    IF matches = <<>> THEN acc
    ELSE IF Len(matches) = 1
    THEN (IF InList(acc, matches[1]) THEN acc ELSE Append(acc, matches[1]))
    ELSE LET first == AddNew(acc, FirstHalf(matches))
         IN  After(first, AddNew(first, SecondHalf(matches)))

\* the loop over the brand keywords
RECURSIVE PhaseA(_, _, _)
PhaseA(held, keywords, acc) ==
    IF keywords = <<>> THEN acc
    ELSE LET kw == Head(keywords)
             matches == SearchTransactions(held, kw, BrandSearchLimit)
             kept == SelectSeq(matches, LAMBDA i :
                        Contains(Lower(Txn(i).description), Lower(kw)))
         IN  PhaseA(held, Tail(keywords), AddNew(acc, kept))

\* merchant_search_terms
MerchantTerms(terms) ==
    SelectSeq(terms, LAMBDA t : Lower(t) \notin GenericCategoryTerms)

\* search_variants
SearchVariants(term) ==
    IF Len(term) > 3 /\ term[Len(term)] = "s"
    THEN <<term, SubSeq(term, 1, Len(term) - 1)>>
    ELSE <<term, Append(term, "s")>>

\* "if required_tags: if _has_required_tags(txn, required_tags)" left out
PassesAll(i, required) == TRUE

\* the tag gate of phases B, C and D on one row
Passes(i, required) == HasRequiredTags(Txn(i), required)

\* the loop with term_found_matches set only for a row that passed the
\* tag filter
RECURSIVE VariantLoopAfterGate(_, _, _, _)
VariantLoopAfterGate(matches, variant, required, st) ==
    IF matches = <<>> THEN st
    ELSE IF Len(matches) = 1
    THEN LET i == matches[1]
             hit == /\ ~InList(st.txns, i)
                    /\ Contains(Lower(Txn(i).description), Lower(variant))
                    /\ Passes(i, required)
         IN  [txns |-> IF hit THEN Append(st.txns, i) ELSE st.txns,
              found |-> st.found \/ hit]
    ELSE LET first == VariantLoopAfterGate(FirstHalf(matches), variant, required, st)
         IN  After(first, VariantLoopAfterGate(SecondHalf(matches), variant, required, first))

\* for txn in matches of one variant: the candidates and term_found_matches
RECURSIVE VariantLoop(_, _, _, _)
VariantLoop(matches, variant, required, st) ==
    IF matches = <<>> THEN st
    ELSE IF Len(matches) = 1
    THEN LET i == matches[1]
             hit == /\ ~InList(st.txns, i)
                    /\ Contains(Lower(Txn(i).description), Lower(variant))
         IN  [txns |-> IF hit /\ Passes(i, required)
                       THEN Append(st.txns, i) ELSE st.txns,
              found |-> st.found \/ hit]
    ELSE LET first == VariantLoop(FirstHalf(matches), variant, required, st)
         IN  After(first, VariantLoop(SecondHalf(matches), variant, required, first))

\* one term: both variants, then term_found_matches
TermStep(held, term, required, acc) ==
    LET v == SearchVariants(term)
        s1 == VariantLoop(SearchTransactions(held, v[1], TermSearchLimit),
                          v[1], required, [txns |-> acc, found |-> FALSE])
    IN  VariantLoop(SearchTransactions(held, v[2], TermSearchLimit),
                    v[2], required, s1)

\* for txn in rows: the unseen rows that pass the gate are added
RECURSIVE Admit(_, _, _)
Admit(acc, rows, required) ==
    IF rows = <<>> THEN acc
    ELSE IF Len(rows) = 1
    THEN (IF ~InList(acc, rows[1]) /\ Passes(rows[1], required)
          THEN Append(acc, rows[1]) ELSE acc)
    ELSE LET first == Admit(acc, FirstHalf(rows), required)
         IN  After(first, Admit(first, SecondHalf(rows), required))

\* the loop over the merchant terms: the candidates and
\* search_terms_with_matches
RECURSIVE PhaseB(_, _, _, _)
PhaseB(held, terms, required, st) ==
    IF terms = <<>> THEN st
    ELSE LET r == TermStep(held, Head(terms), required, st.txns)
         IN  PhaseB(held, Tail(terms), required,
                    [txns |-> r.txns,
                     matched |-> IF r.found THEN Append(st.matched, Head(terms))
                                 ELSE st.matched])

\* the semantic matches added to the candidates
PhaseC(held, ids, required, acc) ==
    IF ids = <<>> THEN acc
    ELSE Admit(acc, GetTransactionsByIds(held, ids), required)

\* the category fetch decided without the count of the candidates
NeedsCategoryFetchAnyCount(category, acc, hasMerchantMatches) ==
    category # NoCategory /\ ~hasMerchantMatches

\* whether the category fetch runs
NeedsCategoryFetch(category, acc, hasMerchantMatches) ==
    category # NoCategory /\ Len(acc) < FewResults /\ ~hasMerchantMatches

\* the category fetch
PhaseD(held, start, end, category, required, acc) ==
    Admit(acc, GetAllTransactions(held, start, end, category, CategoryFetchLimit),
          required)

\* the start date filter alone
DateFilterStartOnly(ids, start, end) ==
    SelectSeq(ids, LAMBDA i : start # NoDate => Txn(i).date >= start)

\* the date filters
DateFilter(ids, start, end) ==
    SelectSeq(ids, LAMBDA i :
        /\ start # NoDate => Txn(i).date >= start
        /\ end # NoDate => Txn(i).date <= end)

\* the category filter applied to brand and tag queries too
CategoryFilterAlways(ids, category, keywords, required) ==
    IF category # NoCategory
    THEN SelectSeq(ids, LAMBDA i : Txn(i).category = category)
    ELSE ids

\* the category filter
CategoryFilter(ids, category, keywords, required) ==
    IF category # NoCategory /\ keywords = <<>> /\ required = <<>>
    THEN SelectSeq(ids, LAMBDA i : Txn(i).category = category)
    ELSE ids

\* the limit applied before the sort
TruncateThenSort(ids) == ByDateDesc(Limit(ids, ResultLimit))

\* transactions.sort(key=date, reverse=True); return transactions[:200]
Finalize(ids) == Limit(ByDateDesc(ids), ResultLimit)

(***************************************************************************)
(* The intent cache                                                        *)
(***************************************************************************)

_CACHE_TTL == 3600

\* len(_intent_cache) > 1000
CacheLimit == 1000

\* sorted_keys[:100]
EvictCount == 100

\* the key without strip()
CacheKeyNoStrip(query) == Lower(query)

\* query.lower().strip(); the md5 digest of it is the dict key, and two
\* texts have the same digest exactly when they are the same text here
CacheKey(query) == Strip(Lower(query))

CacheKeys(c) == {c[i].key : i \in 1..Len(c)}

CacheHas(c, k) == \E i \in 1..Len(c) : c[i].key = k

CacheAt(c, k) == c[CHOOSE i \in 1..Len(c) : c[i].key = k]

\* del _intent_cache[k] for every k of ks
CacheDel(c, ks) == SelectSeq(c, LAMBDA e : e.key \notin ks)

\* setdefault: an existing key keeps its value
CacheKeepFirst(c, k, intent, t) ==
    IF CacheHas(c, k) THEN c
    ELSE Append(c, [key |-> k, intent |-> intent, ts |-> t])

\* _intent_cache[k] = (intent, t): an existing key keeps its place
CacheSet(c, k, intent, t) ==
    IF CacheHas(c, k)
    THEN [i \in 1..Len(c) |->
            IF c[i].key = k THEN [key |-> k, intent |-> intent, ts |-> t]
            ELSE c[i]]
    ELSE Append(c, [key |-> k, intent |-> intent, ts |-> t])

\* the age test with <= for <
FreshInclusive(t, ts) == t - ts <= _CACHE_TTL

\* the age test of _get_cached_intent
Fresh(t, ts) == t - ts < _CACHE_TTL

\* _get_cached_intent: the value returned, whether it came from the
\* `return intent` statement, and the cache it leaves
GetCachedIntent(c, query, t) ==
    LET k == CacheKey(query)
    IN  IF CacheHas(c, k)
        THEN IF Fresh(t, CacheAt(c, k).ts)
             THEN [ret |-> CacheAt(c, k).intent, hit |-> TRUE, cache |-> c]
             ELSE [ret |-> PyNone, hit |-> FALSE, cache |-> CacheDel(c, {k})]
        ELSE [ret |-> PyNone, hit |-> FALSE, cache |-> c]

\* the keys in insertion order, not sorted
SortedNot(c) == c

\* sorted(_intent_cache.keys(), key=lambda k: _intent_cache[k][1]): a
\* stable sort of the items by timestamp
SortedByTime(c) == SortSeq(c, LAMBDA a, b : a.ts < b.ts)

\* the keys deleted by the size limit
Evicted(c) ==
    IF Len(c) > CacheLimit
    THEN LET sorted == SortedByTime(c)
             n == IF Len(sorted) < EvictCount THEN Len(sorted) ELSE EvictCount
         IN  {sorted[i].key : i \in 1..n}
    ELSE {}

\* _cache_intent without the size limit
CacheIntentUnbounded(c, query, intent, t) ==
    CacheSet(c, CacheKey(query), intent, t)

\* _cache_intent
CacheIntent(c, query, intent, t) ==
    LET c1 == CacheSet(c, CacheKey(query), intent, t)
    IN  CacheDel(c1, Evicted(c1))

(***************************************************************************)
(* query_transactions: one task per call, one action per stretch of code   *)
(* between two awaits                                                      *)
(***************************************************************************)

SecondsPerDay == 86400

\* time.time() when exploration starts: 2024-03-15 10:00 UTC
Boot == (Ordinal(2024, 3, 15) - Ordinal(1970, 1, 1)) * SecondsPerDay + 36000

\* date.today() at time t
Today(t) == Ordinal(1970, 1, 1) + (t \div SecondsPerDay)

\* a hit test that takes an intent without a category for no intent
IntentTruthyWithCategory(intent) ==
    intent.kind = "dict" /\ Truthy(intent.category)

\* the truth value of an intent in "if cached_intent"
IntentTruthy(intent) ==
    CASE intent.kind = "dict" ->
            \E f \in {"category", "start_date", "end_date", "search_terms",
                      "calculate_total", "query_type"} : intent[f].t # "missing"
      [] intent.kind \in {"None", "emptylist"} -> FALSE
      [] OTHER -> TRUE

\* the override that keeps a date the intent already carries
OverrideIfAbsent(intent, rel) ==
    IF rel.start = NoDate /\ rel.end = NoDate
    THEN [err |-> "none", intent |-> intent]
    ELSE IF intent.kind # "dict" THEN [err |-> "TypeError", intent |-> intent]
    ELSE [err |-> "none",
          intent |-> [intent EXCEPT
              !.start_date = IF rel.start # NoDate /\ ~Truthy(@)
                             THEN JStr(IsoFormat(rel.start)) ELSE @,
              !.end_date = IF rel.end # NoDate /\ ~Truthy(@)
                           THEN JStr(IsoFormat(rel.end)) ELSE @]]

\* if rel_start: intent["start_date"] = rel_start.isoformat(), and the same
\* for rel_end: item assignment on a value that is no dict raises TypeError
OverrideDates(intent, rel) ==
    IF rel.start = NoDate /\ rel.end = NoDate
    THEN [err |-> "none", intent |-> intent]
    ELSE IF intent.kind # "dict" THEN [err |-> "TypeError", intent |-> intent]
    ELSE [err |-> "none",
          intent |-> [intent EXCEPT
              !.start_date = IF rel.start # NoDate THEN JStr(IsoFormat(rel.start)) ELSE @,
              !.end_date = IF rel.end # NoDate THEN JStr(IsoFormat(rel.end)) ELSE @]]

\* _calculate_stats: total_spending
RECURSIVE TotalSpending(_)
TotalSpending(ids) ==
    IF ids = <<>> THEN 0
    ELSE IF Len(ids) = 1
    THEN (IF Txn(ids[1]).amount < 0 THEN -Txn(ids[1]).amount ELSE 0)
    ELSE TotalSpending(FirstHalf(ids)) + TotalSpending(SecondHalf(ids))

\* _calculate_stats: total_income
RECURSIVE TotalIncome(_)
TotalIncome(ids) ==
    IF ids = <<>> THEN 0
    ELSE IF Len(ids) = 1
    THEN (IF Txn(ids[1]).amount > 0 THEN Txn(ids[1]).amount ELSE 0)
    ELSE TotalIncome(FirstHalf(ids)) + TotalIncome(SecondHalf(ids))

\* sum(abs(t.amount) for t in transactions if t.amount < 0) as the float it
\* is: the amounts are added one after the other in the order of the list
RECURSIVE Spending64(_, _)
Spending64(ids, acc) ==
    IF ids = <<>> THEN acc
    ELSE IF Len(ids) = 1
    THEN (IF Txn(ids[1]).amount < 0 THEN FAdd(acc, F64(-Txn(ids[1]).amount)) ELSE acc)
    ELSE LET first == Spending64(FirstHalf(ids), acc)
         IN  After(first, Spending64(SecondHalf(ids), first))

\* sum(t.amount for t in transactions if t.amount > 0) as the float it is
RECURSIVE Income64(_, _)
Income64(ids, acc) ==
    IF ids = <<>> THEN acc
    ELSE IF Len(ids) = 1
    THEN (IF Txn(ids[1]).amount > 0 THEN FAdd(acc, F64(Txn(ids[1]).amount)) ELSE acc)
    ELSE LET first == Income64(FirstHalf(ids), acc)
         IN  After(first, Income64(SecondHalf(ids), first))

\* the pass that counts every amount as spending
TallyAbs(groups, k, amount) ==
    LET known == \E i \in 1..Len(groups) : groups[i].key = k
        g1 == IF known THEN groups
              ELSE Append(groups, [key |-> k, count |-> 0, spending |-> 0,
                                   income |-> 0])
        at == CHOOSE i \in 1..Len(g1) : g1[i].key = k
    IN  [g1 EXCEPT ![at] =
            [@ EXCEPT !.count = @ + 1,
                      !.spending = IF amount < 0 THEN @ - amount ELSE @ + amount]]

\* one pass of a breakdown loop: the group of key k is created on first
\* sight (a dict keeps insertion order) and counts the transaction; a
\* negative amount adds to spending, any other to income
Tally(groups, k, amount) ==
    LET known == \E i \in 1..Len(groups) : groups[i].key = k
        g1 == IF known THEN groups
              ELSE Append(groups, [key |-> k, count |-> 0, spending |-> 0,
                                   income |-> 0])
        at == CHOOSE i \in 1..Len(g1) : g1[i].key = k
    IN  [g1 EXCEPT ![at] =
            [@ EXCEPT !.count = @ + 1,
                      !.spending = IF amount < 0 THEN @ - amount ELSE @,
                      !.income = IF amount < 0 THEN @ ELSE @ + amount]]

\* the same pass on the floats the code holds: spending += abs(txn.amount)
\* for a negative amount, income += txn.amount for any other
Tally64(groups, k, amount) ==
    LET known == \E i \in 1..Len(groups) : groups[i].key = k
        g1 == IF known THEN groups
              ELSE Append(groups, [key |-> k, spending |-> Zero64, income |-> Zero64])
        at == CHOOSE i \in 1..Len(g1) : g1[i].key = k
    IN  [g1 EXCEPT ![at] =
            [@ EXCEPT !.spending = IF amount < 0 THEN FAdd(@, F64(-amount)) ELSE @,
                      !.income = IF amount < 0 THEN @ ELSE FAdd(@, F64(amount))]]

RECURSIVE Breakdown64(_, _, _)
Breakdown64(ids, keyOf, groups) ==
    IF ids = <<>> THEN groups
    ELSE IF Len(ids) = 1
    THEN Tally64(groups, keyOf[ids[1]], Txn(ids[1]).amount)
    ELSE LET first == Breakdown64(FirstHalf(ids), keyOf, groups)
         IN  After(first, Breakdown64(SecondHalf(ids), keyOf, first))

RECURSIVE Breakdown(_, _, _)
Breakdown(ids, keyOf, groups) ==
    IF ids = <<>> THEN groups
    ELSE IF Len(ids) = 1
    THEN Tally(groups, keyOf[ids[1]], Txn(ids[1]).amount)
    ELSE LET first == Breakdown(FirstHalf(ids), keyOf, groups)
         IN  After(first, Breakdown(SecondHalf(ids), keyOf, first))

\* the source, month and category groups carry no income
WithoutIncome(groups) ==
    [i \in 1..Len(groups) |->
        [key |-> groups[i].key, count |-> groups[i].count,
         spending |-> groups[i].spending]]

\* txn.date.year
YearKey == [id \in DOMAIN TxnIds |-> YearOf(Txn(id).date)]

\* txn.source.value if txn.source else "unknown"
SourceKey == [id \in DOMAIN TxnIds |->
                 IF Txn(id).source = "" THEN "unknown" ELSE Txn(id).source]

\* txn.date.strftime("%Y-%m")
MonthKey == [id \in DOMAIN TxnIds |-> <<YearOf(Txn(id).date), MonthOf(Txn(id).date)>>]

\* txn.category.value if txn.category else "Uncategorized"
CategoryKey == [id \in DOMAIN TxnIds |->
                   IF Txn(id).category = NoCategory THEN <<"U","n","c","a","t","e","g","o","r","i","z","e","d">>
                   ELSE Txn(id).category]

\* stats = {} for no transactions
NoStats ==
    [empty |-> TRUE, total_count |-> 0, total_spending |-> 0, total_income |-> 0,
     by_year |-> <<>>, by_source |-> <<>>, by_month |-> <<>>, by_category |-> <<>>]

\* _calculate_stats with its sums in cents, which is what a two-decimal
\* format of them shows
CalculateStats(ids) ==
    IF ids = <<>> THEN NoStats
    ELSE [empty |-> FALSE,
          total_count |-> Len(ids),
          total_spending |-> TotalSpending(ids),
          total_income |-> TotalIncome(ids),
          by_year |-> Breakdown(ids, YearKey, <<>>),
          by_source |-> WithoutIncome(Breakdown(ids, SourceKey, <<>>)),
          by_month |-> WithoutIncome(Breakdown(ids, MonthKey, <<>>)),
          by_category |-> WithoutIncome(Breakdown(ids, CategoryKey, <<>>))]

NoFloats ==
    [total_spending |-> Zero64, total_income |-> Zero64,
     by_year |-> <<>>, by_source |-> <<>>, by_month |-> <<>>, by_category |-> <<>>]

\* the sums of _calculate_stats as the floats they are; the source, month
\* and category groups use their spending alone
Floats(ids) ==
    IF ids = <<>> THEN NoFloats
    ELSE [total_spending |-> Spending64(ids, Zero64),
          total_income |-> Income64(ids, Zero64),
          by_year |-> Breakdown64(ids, YearKey, <<>>),
          by_source |-> Breakdown64(ids, SourceKey, <<>>),
          by_month |-> Breakdown64(ids, MonthKey, <<>>),
          by_category |-> Breakdown64(ids, CategoryKey, <<>>)]

NoAmount == [none |-> TRUE, value |-> 0]

NoTask ==
    [pc |-> "idle", query |-> <<>>, rel |-> RelDates(NoDate, NoDate),
     intent |-> PyNone, hit |-> FALSE, analyzed |-> FALSE,
     returned |-> PyNone, caught |-> FALSE,
     put |-> FALSE, putSeq |-> 0, cacheError |-> FALSE,
     start |-> NoDate, end |-> NoDate, category |-> NoCategory,
     required |-> <<>>, keywords |-> <<>>, txns |-> <<>>, matched |-> <<>>,
     filter |-> JNull, semantic |-> "none", ledgerFailed |-> FALSE,
     beforeD |-> <<>>, phaseD |-> FALSE, result |-> <<>>, spending |-> 0, summary |-> "none",
     text |-> [kind |-> "none", count |-> 0, spending |-> 0, years |-> <<>>],
     llmCalls |-> 0, indexCalls |-> 0, intentCalls |-> 0, stats |-> NoStats, floats |-> NoFloats,
     total_amount |-> NoAmount, status |-> 0, error |-> "none"]

\* the calls that may be in flight at once
NumTasks == 2

TaskIds == 1..NumTasks

\* the call ends in an exception: the endpoint answers 500
Raise(task, error) == [task EXCEPT !.pc = "done", !.status = 500, !.error = error]

\* the summary of a list without transactions
NoResults == [kind |-> "no results", count |-> 0, spending |-> 0, years |-> <<>>]

\* the text the LLM wrote, stripped
LlmText == [kind |-> "llm", count |-> 0, spending |-> 0, years |-> <<>>]

\* the template that never gives the years
FallbackTotals(stats) ==
    [kind |-> "found", count |-> stats.total_count,
     spending |-> stats.total_spending, years |-> <<>>]

\* the except branch of _generate_summary: the years, latest first, each
\* with its count and spending, when there is more than one year; the
\* count and the total spending otherwise
FallbackSummary(stats) ==
    IF Len(stats.by_year) > 1
    THEN [kind |-> "breakdown", count |-> 0, spending |-> 0,
          years |-> LET sorted == SortSeq(stats.by_year, LAMBDA a, b : a.key > b.key)
                    IN  [i \in 1..Len(sorted) |->
                            [year |-> sorted[i].key, count |-> sorted[i].count,
                             spending |-> sorted[i].spending]]]
    ELSE [kind |-> "found", count |-> stats.total_count,
          spending |-> stats.total_spending, years |-> <<>>]

\* total_amount of the QueryResponse
TotalAmount(ids) ==
    LET total == TotalSpending(ids)
    IN  IF ids = <<>> \/ total = 0 THEN NoAmount
        ELSE [none |-> FALSE, value |-> -total]

\* the QueryResponse is returned: the endpoint answers 200
Respond(task, summary) ==
    [task EXCEPT !.pc = "done", !.status = 200, !.summary = summary,
                 !.text = CASE summary = "llm" -> LlmText
                            [] summary = "fallback" ->
                                  FallbackSummary(task.stats)
                            [] OTHER -> NoResults,
                 !.total_amount = TotalAmount(task.result)]

\* _generate_summary without the test for an empty list
GenerateSummaryAlways(task) == [task EXCEPT !.pc = "summary", !.llmCalls = @ + 1]

\* _generate_summary up to its await: the fixed string for no
\* transactions, and otherwise the one acompletion call
GenerateSummary(task) ==
    IF task.result = <<>> THEN Respond(task, "no results")
    ELSE [task EXCEPT !.pc = "summary", !.llmCalls = @ + 1]

\* the statistics taken over every candidate
StatsListCandidates(candidates, returned) == candidates

\* stats = _calculate_stats(transactions): the list is the one
\* _get_relevant_transactions returned
StatsList(candidates, returned) == returned

\* _get_relevant_transactions from the semantic step on, then
\* _calculate_stats, then _generate_summary up to its await
AfterSemantic(task, held, storeUp, ids) ==
    LET afterC == PhaseC(held, ids, task.required, task.txns)
        runD == NeedsCategoryFetch(task.category, afterC, task.matched # <<>>)
        afterD == IF runD
                  THEN PhaseD(held, task.start, task.end, task.category,
                              task.required, afterC)
                  ELSE afterC
        result == Finalize(CategoryFilter(DateFilter(afterD, task.start, task.end),
                              task.category, task.keywords, task.required))
        t1 == [task EXCEPT !.txns = afterD, !.beforeD = afterC,
                           !.phaseD = runD, !.result = result,
                           !.spending = TotalSpending(result),
                           !.stats = CalculateStats(StatsList(afterD, result))]
    IN  IF ~storeUp /\ (ids # <<>> \/ runD)
        THEN Raise([task EXCEPT !.ledgerFailed = TRUE], "LedgerError")
        ELSE GenerateSummary(t1)

\* the semantic search decided on the merchant matches alone
ShouldUseSemanticNoBrand(keywords, matched) == matched = <<>>

\* should_use_semantic = not has_brand_search and not has_merchant_matches
ShouldUseSemantic(keywords, matched) == keywords = <<>> /\ matched = <<>>

\* _get_relevant_transactions up to the await on vector_store.search
Retrieve(task, held, storeUp) ==
    LET intent == task.intent
        sd == ParseDateField(intent.start_date)
        ed == ParseDateField(intent.end_date)
        required == GetRequiredTags(Lower(task.query))
        keywords == ExtractBrandKeywords(Lower(task.query))
        afterA == PhaseA(held, keywords, <<>>)
        st == SearchTerms(intent.search_terms)
        merchant == MerchantTerms(st.terms)
        afterB == PhaseB(held, merchant, required,
                         [txns |-> afterA, matched |-> <<>>])
        t1 == [task EXCEPT !.start = sd.date, !.end = ed.date,
                           !.category = ParseCategoryField(intent.category),
                           !.required = required, !.keywords = keywords,
                           !.txns = afterB.txns, !.matched = afterB.matched]
    IN  IF intent.kind # "dict" THEN Raise(task, "AttributeError")
        ELSE IF sd.err # "none" THEN Raise(task, sd.err)
        ELSE IF ed.err # "none" THEN Raise(task, ed.err)
        ELSE IF keywords # <<>> /\ ~storeUp
             THEN Raise([task EXCEPT !.ledgerFailed = TRUE], "LedgerError")
        ELSE IF st.err # "none" THEN Raise(task, st.err)
        ELSE IF merchant # <<>> /\ ~storeUp
             THEN Raise([task EXCEPT !.ledgerFailed = TRUE], "LedgerError")
        ELSE IF ShouldUseSemantic(keywords, afterB.matched)
             THEN [t1 EXCEPT !.pc = "semantic", !.indexCalls = @ + 1,
                             !.filter = IF required # <<>> THEN JNull
                                        ELSE intent.category]
        ELSE AfterSemantic(t1, held, storeUp, <<>>)

(***************************************************************************)
(* A cache that has served earlier queries                                 *)
(***************************************************************************)

\* the text of the i-th earlier query
EarlierQuery(i) ==
    <<"q", Digits[((i \div 1000) % 10) + 1], Digits[((i \div 100) % 10) + 1],
      Digits[((i \div 10) % 10) + 1], Digits[(i % 10) + 1]>>

\* how many earlier queries share one timestamp
WarmGroup == 300

\* the times at which n earlier queries were put: all at once, in
\* insertion order, or (after re-puts) against insertion order
WarmTime(pattern, n, i) ==
    CASE pattern = "same" -> 0
      [] pattern = "asc" -> (i - 1) \div WarmGroup
      [] OTHER -> (n - i) \div WarmGroup

WarmCache(pattern, n) ==
    [i \in 1..n |-> [key |-> EarlierQuery(i), intent |-> DefaultIntent,
                     ts |-> Boot + WarmTime(pattern, n, i)]]

\* the caches exploration starts from: empty, one short of the limit, and
\* at the limit with each pattern of timestamps
WarmStarts ==
    { <<"same", 0>>, <<"asc", CacheLimit - 1>>, <<"same", CacheLimit>>,
      <<"desc", CacheLimit>> }

\* the clock when exploration starts: after every earlier put
StartTime == Boot + (CacheLimit \div WarmGroup) + 1

(***************************************************************************)
(* Inputs of the cache operations                                          *)
(***************************************************************************)

CacheQueries ==
    { <<"a","b">>, <<" ","A","b","\n">>, <<"c">>, <<"Q","0","0","0","1">> }

OtherIntent ==
    IntentDict(JStr(<<"G","a","s">>), JNull, JNull, JList(<<>>), JBool(FALSE),
               JStr(<<"l","i","s","t">>))

CacheIntents == {DefaultIntent, OtherIntent}

\* seconds the clock may advance in one step
TickSteps == {1, _CACHE_TTL - 1}

MaxOps == 3

NoOp == [op |-> "none", query |-> <<>>, intent |-> PyNone, ret |-> PyNone,
         hit |-> FALSE, at |-> 0, sizeBefore |-> 0, hadKey |-> FALSE,
         removed |-> {}]

NoPut == [put |-> FALSE, intent |-> PyNone, at |-> 0]

ActiveKeys == {CacheKey(q) : q \in CacheQueries}

\* the (key, timestamp) items of c whose key c2, a part of c, no longer holds
Dropped(c, c2) ==
    LET left == CacheKeys(c2)
    IN  IF Len(c) = Len(c2) THEN {}
        ELSE {[key |-> c[i].key, ts |-> c[i].ts] :
                 i \in {j \in 1..Len(c) : c[j].key \notin left}}

InitCache ==
    /\ \E w \in WarmStarts : cache = WarmCache(w[1], w[2])
    /\ now = StartTime
    /\ last = NoOp
    /\ hist = [k \in ActiveKeys |->
                 IF CacheHas(cache, k)
                 THEN [put |-> TRUE, intent |-> CacheAt(cache, k).intent,
                       at |-> CacheAt(cache, k).ts]
                 ELSE NoPut]
    /\ steps = 0
    /\ tasks = [t \in TaskIds |-> NoTask]
    /\ ledger = {}

\* _cache_intent(query, intent) at the current time
CachePut(query, intent) ==
    /\ steps < MaxOps
    /\ cache' = CacheIntent(cache, query, intent, now)
    /\ last' = [op |-> "put", query |-> query, intent |-> intent,
                ret |-> PyNone, hit |-> FALSE, at |-> now,
                sizeBefore |-> Len(cache),
                hadKey |-> CacheHas(cache, CacheKey(query)),
                removed |-> Dropped(CacheSet(cache, CacheKey(query), intent, now),
                                    cache')]
    /\ hist' = [hist EXCEPT ![CacheKey(query)] =
                  [put |-> TRUE, intent |-> intent, at |-> now]]
    /\ steps' = steps + 1
    /\ UNCHANGED <<now, tasks, ledger>>

\* _get_cached_intent(query) at the current time
CacheGet(query) ==
    /\ steps < MaxOps
    /\ LET r == GetCachedIntent(cache, query, now)
       IN  /\ cache' = r.cache
           /\ last' = [op |-> "get", query |-> query, intent |-> PyNone,
                       ret |-> r.ret, hit |-> r.hit, at |-> now,
                       sizeBefore |-> Len(cache),
                       hadKey |-> CacheHas(cache, CacheKey(query)),
                       removed |-> Dropped(cache, cache')]
    /\ steps' = steps + 1
    /\ UNCHANGED <<now, hist, tasks, ledger>>

\* the clock advances
Tick(d) ==
    /\ steps < MaxOps
    /\ now' = now + d
    /\ steps' = steps + 1
    /\ UNCHANGED <<cache, last, hist, tasks, ledger>>

NextCache ==
    \/ \E q \in CacheQueries, i \in CacheIntents : CachePut(q, i)
    \/ \E q \in CacheQueries : CacheGet(q)
    \/ \E d \in TickSteps : Tick(d)

SpecCache == InitCache /\ [][NextCache]_vars

(***************************************************************************)
(* Claims about the intent cache, checked under SpecCache                  *)
(***************************************************************************)

\* the history of the text the last operation was about
LastHist == hist[Strip(Lower(last.query))]

\* C2: _get_cached_intent returns an intent only if the entry for the
\* normalized query was stored strictly less than 3600 seconds before the
\* get, and then it is the stored intent; at an age of 3600 seconds or more
\* it returns None.
C2_NeverStale ==
    last.op = "get" =>
        /\ last.hit =>
              /\ LastHist.put
              /\ last.at - LastHist.at < 3600
              /\ last.ret = LastHist.intent
        /\ (LastHist.put /\ last.at - LastHist.at >= 3600) =>
              (~last.hit /\ last.ret = PyNone)

\* a get of an entry that is still held and exactly 3600 seconds old
C2_Witness ==
    /\ last.op = "get"
    /\ last.hadKey
    /\ LastHist.put
    /\ last.at - LastHist.at = 3600
    /\ ~last.hit

\* C3: a put of a new query that makes the cache hold 1001 entries removes
\* exactly 100 entries, none of them newer than an entry it keeps, and
\* leaves 901; a put that leaves the size at or below 1000 removes nothing.
C3_EvictOldest ==
    last.op = "put" =>
        IF ~last.hadKey /\ last.sizeBefore + 1 = 1001
        THEN /\ Cardinality(last.removed) = 100
             /\ Len(cache) = 901
             /\ \A r \in last.removed : \A i \in 1..Len(cache) :
                   r.ts <= cache[i].ts
        ELSE /\ last.removed = {}
             /\ Len(cache) = last.sizeBefore + (IF last.hadKey THEN 0 ELSE 1)

\* an eviction that has to choose among entries of one timestamp
C3_Witness ==
    /\ last.op = "put"
    /\ last.sizeBefore = 1000
    /\ ~last.hadKey
    /\ last.removed # {}
    /\ \E r \in last.removed : \E i \in 1..Len(cache) : r.ts = cache[i].ts

\* C4: the intent cache holds at most 1000 entries in every state.
C4_AtMostLimit == Len(cache) <= 1000

\* a put of a new query into a cache that holds 1000 entries
C4_Witness ==
    /\ last.op = "put"
    /\ ~last.hadKey
    /\ last.sizeBefore = 1000
    /\ Len(cache) <= 1000

\* C5: immediately after _cache_intent(q, intent), _get_cached_intent(q2)
\* returns that intent for every q2 equal to q after lower() and strip(),
\* also when the put evicted entries; a put for a text already held
\* replaces the entry, so the text is held once and the size is unchanged.
C5_RoundTrip ==
    (last.op = "put" /\ now = last.at) =>
        /\ \A q2 \in CacheQueries :
              Strip(Lower(q2)) = Strip(Lower(last.query)) =>
                 LET r == GetCachedIntent(cache, q2, now)
                 IN  r.hit /\ r.ret = last.intent
        /\ Cardinality({i \in 1..Len(cache) :
                           cache[i].key = Strip(Lower(last.query))}) = 1
        /\ last.hadKey => Len(cache) = last.sizeBefore

\* a put under a text with surrounding whitespace and capitals that
\* triggered the eviction
C5_Witness ==
    /\ last.op = "put"
    /\ now = last.at
    /\ last.query = <<" ","A","b","\n">>
    /\ last.removed # {}

(***************************************************************************)
(* The steps of a call of query_transactions behind POST /query            *)
(***************************************************************************)

\* del _intent_cache[k] raises KeyError for a key the dict does not hold
DelRaises(c, ks) == \E k \in ks : ~CacheHas(c, k)

\* the cached dict is the object the hit path assigns into
CacheMutate(c, k, intent) ==
    [i \in 1..Len(c) |-> IF c[i].key = k THEN [c[i] EXCEPT !.intent = intent]
                         ELSE c[i]]

RecordPut(h, k, intent, t) ==
    IF k \in DOMAIN h THEN [h EXCEPT ![k] = [put |-> TRUE, intent |-> intent, at |-> t]]
    ELSE h

\* lines 180-191 and, on a hit, the call up to its first await; on a
\* miss the call waits for the intent LLM call
Start(t, query, storeUp) ==
    /\ tasks[t].pc = "idle"
    /\ LET rel == ParseRelativeDate(query, Today(now))
           g == GetCachedIntent(cache, query, now)
           o == OverrideDates(g.ret, rel)
           t0 == [tasks[t] EXCEPT !.query = query]
           t1 == [t0 EXCEPT !.rel = rel,
                    !.cacheError = DelRaises(cache, CacheKeys(cache) \ CacheKeys(g.cache))]
       IN  IF rel.err # "none"
           THEN /\ tasks' = [tasks EXCEPT ![t] = Raise(t0, rel.err)]
                /\ cache' = cache
           ELSE IF ~IntentTruthy(g.ret)
           THEN /\ tasks' = [tasks EXCEPT ![t] = [t1 EXCEPT !.pc = "intent",
                                                            !.analyzed = TRUE,
                                                            !.intentCalls = @ + 1]]
                /\ cache' = g.cache
           ELSE IF o.err # "none"
           THEN /\ tasks' = [tasks EXCEPT ![t] = Raise([t1 EXCEPT !.hit = TRUE], o.err)]
                /\ cache' = g.cache
           ELSE /\ tasks' = [tasks EXCEPT ![t] =
                               Retrieve([t1 EXCEPT !.hit = TRUE, !.intent = o.intent],
                                        ledger, storeUp)]
                /\ cache' = CacheMutate(g.cache, CacheKey(query), o.intent)
    /\ steps' = steps + 1
    /\ UNCHANGED <<now, last, hist, ledger>>

\* the intent LLM call is over: lines 276-297, 196-203 and the call up to
\* its next await
IntentDone(t, reply, storeUp) ==
    /\ tasks[t].pc = "intent"
    /\ LET a == AnalyzeQueryIntent(reply)
           o == OverrideDates(a.intent, tasks[t].rel)
           k == CacheKey(tasks[t].query)
           c1 == CacheSet(cache, k, o.intent, now)
           t1 == [tasks[t] EXCEPT !.returned = a.intent, !.caught = a.caught,
                                 !.intent = o.intent]
           t2 == [t1 EXCEPT !.put = TRUE, !.putSeq = Cardinality({u \in TaskIds : tasks[u].put}) + 1,
                            !.cacheError = DelRaises(c1, Evicted(c1))]
       IN  IF o.err # "none"
           THEN /\ tasks' = [tasks EXCEPT ![t] = Raise(t1, o.err)]
                /\ UNCHANGED <<cache, hist>>
           ELSE /\ tasks' = [tasks EXCEPT ![t] = Retrieve(t2, ledger, storeUp)]
                /\ cache' = CacheIntent(cache, tasks[t].query, o.intent, now)
                /\ hist' = RecordPut(hist, k, o.intent, now)
    /\ steps' = steps + 1
    /\ UNCHANGED <<now, last, ledger>>

\* vector_store.search is over: lines 417-467, _calculate_stats and
\* _generate_summary up to its await
SemanticDone(t, outcome, storeUp) ==
    /\ tasks[t].pc = "semantic"
    /\ LET v == VectorSearch(outcome, tasks[t].filter, SemanticResults)
           t1 == [tasks[t] EXCEPT !.semantic =
                     IF outcome.embedding = "fails" THEN "embedding failed"
                     ELSE IF v.raised THEN "query failed" ELSE "answered"]
       IN  tasks' = [tasks EXCEPT ![t] =
                        IF v.raised THEN Raise(t1, "IndexError")
                        ELSE AfterSemantic(t1, ledger, storeUp, v.ids)]
    /\ steps' = steps + 1
    /\ UNCHANGED <<cache, now, last, hist, ledger>>

\* the summary LLM call is over: its text, or the template of the except
\* branch; then lines 215-221
SummaryDone(t, llmUp) ==
    /\ tasks[t].pc = "summary"
    /\ tasks' = [tasks EXCEPT ![t] =
                    Respond(tasks[t], IF llmUp THEN "llm" ELSE "fallback")]
    /\ steps' = steps + 1
    /\ UNCHANGED <<cache, now, last, hist, ledger>>

(***************************************************************************)
(* One call at a time, over many queries, replies and ledgers              *)
(***************************************************************************)

QueryTexts ==
    { <<"u","b","e","r">>, <<"U","b","e","r","e","a","t","s"," ","a","n","d"," ","n","e","t","f","l","i","x">>, <<"e","m","i","r","a","t","e","s">>, <<"f","l","i","g","h","t","s">>,
      <<"m","y"," ","r","i","d","e","s","h","a","r","e">>, <<"f","o","o","d">>, <<"s","p","e","n","d"," ","t","o","d","a","y">>, <<"i","n"," ","m","a","r","c","h"," ","2","0","2","4">> }

\* the documents the LLM may answer with
DocCategories ==
    { JNull, JStr(<<"T","r","a","v","e","l">>), JStr(<<"R","i","d","e","s">>), JNum(<<"7">>) }

DocDates ==
    { JNull, JStr(<<"2","0","2","4","-","0","3","-","0","1">>), JStr(<<"M","a","r","c","h"," ","1">>), JNum(<<"2","0","2","4">>),
      JList(<<>>) }

DocTerms ==
    { JMissing, JNull, JList(<<>>), JList(<< <<"u","b","e","r">> >>),
      JList(<< <<"f","l","i","g","h","t","s">>, <<"e","a","t">>, <<"r","i","d","e">> >>) }

Docs ==
    { IntentDict(c, d, JNull, s, JBool(TRUE), JStr(<<"s","e","a","r","c","h">>)) :
          c \in DocCategories, d \in DocDates, s \in DocTerms }
    \cup { IntentDict(JNull, JNull, d, JList(<<>>), JBool(TRUE), JStr(<<"s","e","a","r","c","h">>)) :
               d \in DocDates }
    \cup { NonDict("None"), NonDict("emptylist"), NonDict("list"), NonDict("num"),
           IntentDict(JMissing, JMissing, JMissing, JMissing, JMissing, JMissing) }

\* contents that parse to the document, and contents that do not
Contents ==
    { <<"DOC">>, <<" ", "DOC", "\n">>,
      <<"fence", "json", "\n", "DOC", "\n", "fence">>,
      <<"fence", "DOC", "fence", "text">> }

BadContents ==
    { <<"None">>, <<>>, <<"text">>, <<"DOC", "text">>, <<"fence">>,
      <<"text", "fence", "DOC", "fence">>, <<"fence", " ", "json", "DOC", "fence">> }

OneDoc == IntentDict(JStr(<<"T","r","a","v","e","l">>), JNull, JNull, JList(<<>>), JBool(TRUE),
                     JStr(<<"s","e","a","r","c","h">>))

Replies ==
    { [raises |-> TRUE, content |-> <<>>, doc |-> PyNone] }
    \cup { [raises |-> FALSE, content |-> c, doc |-> OneDoc] : c \in BadContents }
    \cup { [raises |-> FALSE, content |-> c, doc |-> OneDoc] : c \in Contents }
    \cup { [raises |-> FALSE, content |-> <<"DOC">>, doc |-> d] : d \in Docs }

IndexAnswers == { <<>>, <<5, 4>>, <<6, 3, 2, 1>> }

Outcomes ==
    { [embedding |-> "fails", query |-> "ok", ids |-> <<>>],
      [embedding |-> "ok", query |-> "fails", ids |-> <<>>] }
    \cup { [embedding |-> "ok", query |-> "ok", ids |-> a] : a \in IndexAnswers }

Ledgers == { {}, {1, 3, 6}, {2, 4, 5}, 1..6 }

\* an entry an earlier call for "food" left in the cache
EarlierEntry ==
    [key |-> <<"f","o","o","d">>, intent |-> OneDoc, ts |-> Boot]

Init ==
    /\ cache \in {<<>>, <<EarlierEntry>>}
    /\ now = StartTime
    /\ last = NoOp
    /\ hist = [k \in {CacheKey(q) : q \in QueryTexts} |-> NoPut]
    /\ steps = 0
    /\ tasks = [t \in TaskIds |-> NoTask]
    /\ ledger \in Ledgers

Next ==
    \/ \E q \in QueryTexts, up \in BOOLEAN : Start(1, q, up)
    \/ \E r \in Replies, up \in BOOLEAN : IntentDone(1, r, up)
    \/ \E o \in Outcomes, up \in BOOLEAN : SemanticDone(1, o, up)
    \/ \E up \in BOOLEAN : SummaryDone(1, up)

Spec == Init /\ [][Next]_vars

(***************************************************************************)
(* Claims about retrieval and the pipeline, checked under Spec             *)
(***************************************************************************)

\* _get_relevant_transactions has returned its list to the call
Retrieved(t) == tasks[t].pc = "summary" \/ tasks[t].status = 200

\* the transactions of the returned list
Returned(t) == {Txn(tasks[t].result[k]) : k \in 1..Len(tasks[t].result)}

RequiredOf(t) == GetRequiredTags(Lower(tasks[t].query))

KeywordsOf(t) == ExtractBrandKeywords(Lower(tasks[t].query))

\* the description holds one of the query's brand keywords
HoldsBrandKeyword(t, txn) ==
    \E j \in 1..Len(KeywordsOf(t)) :
        Contains(Lower(txn.description), Lower(KeywordsOf(t)[j]))

\* C1 as stated: whenever the required tag set of the query is non-empty,
\* every returned transaction has a required tag as a substring of its
\* lowercased description or equal to one of its own tags, whichever phase
\* added it.
C1_EveryReturnedMatchesTags ==
    \A t \in TaskIds :
        Retrieved(t) /\ RequiredOf(t) # <<>> =>
            \A txn \in Returned(t) : MatchesTagOrDescription(txn, RequiredOf(t))

\* C1 amended: whenever the required tag set of the query is non-empty,
\* every returned transaction either holds a brand keyword of the query in
\* its description (the brand direct search adds those without the tag
\* test) or passes _has_required_tags, which for the airline pair of tags
\* is the airline name test and otherwise the tag-or-description test.
C1_ReturnedPassGateOrBrand ==
    \A t \in TaskIds :
        Retrieved(t) /\ RequiredOf(t) # <<>> =>
            \A txn \in Returned(t) :
                \/ HoldsBrandKeyword(t, txn)
                \/ HasRequiredTags(txn, RequiredOf(t))

\* a returned list that holds a brand hit without any required tag, after a
\* search term has hit a row that the tag test kept out
C1_Witness ==
    \E t \in TaskIds :
        /\ Retrieved(t)
        /\ RequiredOf(t) # <<>>
        /\ \E txn \in Returned(t) :
              /\ HoldsBrandKeyword(t, txn)
              /\ ~MatchesTagOrDescription(txn, RequiredOf(t))
        /\ tasks[t].matched # <<>>
        /\ \E i \in ledger :
              /\ Txn(i) \notin Returned(t)
              /\ ~HasRequiredTags(Txn(i), RequiredOf(t))
              /\ \E k \in 1..Len(tasks[t].matched) :
                    Contains(Lower(Txn(i).description), Lower(tasks[t].matched[k]))

\* the same row came back from more than one search of the call: two brand
\* keywords, a term and its variant, or the index and the category fetch
FetchedTwice(t, i) ==
    LET d == Lower(Txn(i).description)
        kws == KeywordsOf(t)
        m == tasks[t].matched
    IN  \/ \E j \in 1..Len(kws), k \in 1..Len(kws) :
              j # k /\ Contains(d, kws[j]) /\ Contains(d, kws[k])
        \/ \E k \in 1..Len(m) :
              /\ Contains(d, Lower(SearchVariants(m[k])[1]))
              /\ Contains(d, Lower(SearchVariants(m[k])[2]))
        \/ /\ tasks[t].semantic = "answered"
           /\ tasks[t].phaseD
           /\ Txn(i).category = tasks[t].category

\* C7: the list _get_relevant_transactions returns holds each transaction
\* id at most once.
C7_EachIdOnce ==
    \A t \in TaskIds :
        Retrieved(t) =>
            \A j \in 1..Len(tasks[t].result), k \in 1..Len(tasks[t].result) :
                tasks[t].result[j] = tasks[t].result[k] => j = k

\* a returned list of several rows, one of which two searches had fetched
C7_Witness ==
    \E t \in TaskIds :
        /\ Retrieved(t)
        /\ Len(tasks[t].result) > 1
        /\ \E k \in 1..Len(tasks[t].result) : FetchedTwice(t, tasks[t].result[k])

\* a Ledger Store call or the Semantic Index search of the call failed
StoreOrIndexFailed(t) ==
    tasks[t].ledgerFailed \/ tasks[t].semantic \in {"embedding failed", "query failed"}

\* an LLM call of the call failed: the intent analysis or the summary
LlmFailed(t) == tasks[t].caught \/ tasks[t].summary = "fallback"

\* C8 as stated: a call in which a Ledger Store call or the Semantic Index
\* search failed ends in an error and no QueryResponse; a call in which
\* only LLM calls failed ends in a QueryResponse.
C8_RetrievalFailureSurfaces ==
    \A t \in TaskIds :
        tasks[t].pc = "done" =>
            /\ StoreOrIndexFailed(t) => tasks[t].status = 500
            /\ LlmFailed(t) /\ ~StoreOrIndexFailed(t) => tasks[t].status = 200

\* C9 as stated: whatever JSON value the intent carries in start_date,
\* end_date or category, and with search_terms missing or null, retrieval
\* raises nothing of its own.
C9_MalformedFieldNeverAborts ==
    \A t \in TaskIds :
        tasks[t].analyzed /\ tasks[t].returned.kind = "dict" =>
            tasks[t].error \notin {"TypeError", "AttributeError"}

\* C10 as stated: _analyze_query_intent returns an intent, a dict, for
\* every outcome of the LLM call, and the fixed default whenever the call
\* raised or its content did not parse.
C10_AlwaysAnIntent ==
    \A t \in TaskIds :
        tasks[t].analyzed /\ tasks[t].pc \notin {"idle", "intent"} =>
            /\ tasks[t].returned.kind = "dict"
            /\ tasks[t].caught => tasks[t].returned = DefaultIntent

(***************************************************************************)
(* Calls in flight at once: the event loop runs one stretch of one call    *)
(* at a time, and switches calls only at an await                          *)
(***************************************************************************)

ConcQueries == { <<"f","o","o","d">>, <<" ","F","o","o","d">> }

ConcReplies ==
    { [raises |-> TRUE, content |-> <<>>, doc |-> PyNone],
      [raises |-> FALSE, content |-> <<"DOC">>, doc |-> OneDoc] }

ConcOutcomes ==
    { [embedding |-> "ok", query |-> "ok", ids |-> <<5, 4>>] }

\* the calls get their ids in the order in which they arrive
Arrives(t) == \A u \in TaskIds : u < t => tasks[u].pc # "idle"

\* the call arrives when the calls before it are over
ArrivesAfter(t) == \A u \in TaskIds : u < t => tasks[u].pc = "done"

InitConc ==
    /\ cache \in {<<>>, WarmCache("same", CacheLimit)}
    /\ now = StartTime
    /\ last = NoOp
    /\ hist = [k \in {CacheKey(q) : q \in ConcQueries} |-> NoPut]
    /\ steps = 0
    /\ tasks = [t \in TaskIds |-> NoTask]
    /\ ledger = {2, 4, 5}

NextConc ==
    \/ \E t \in TaskIds, q \in ConcQueries : Arrives(t) /\ Start(t, q, TRUE)
    \/ \E t \in TaskIds, r \in ConcReplies : IntentDone(t, r, TRUE)
    \/ \E t \in TaskIds, o \in ConcOutcomes : SemanticDone(t, o, TRUE)
    \/ \E t \in TaskIds : SummaryDone(t, TRUE)

SpecConc == InitConc /\ [][NextConc]_vars

\* the key of the call's query
KeyOf(t) == Strip(Lower(tasks[t].query))

\* b made the last put under its key among the calls
LastPut(b) ==
    /\ tasks[b].put
    /\ \A c \in TaskIds :
          tasks[c].put /\ KeyOf(c) = KeyOf(b) => tasks[c].putSeq <= tasks[b].putSeq

\* C6: with calls interleaving at their awaits, no cache get or put raises,
\* the cache holds at most 1000 entries, and once two calls for the same
\* normalized query have both finished, the entry the cache holds for that
\* query is the intent of the later put.
C6_ConcurrentCacheSafe ==
    /\ \A t \in TaskIds : ~tasks[t].cacheError
    /\ Len(cache) <= 1000
    /\ \A a \in TaskIds, b \in TaskIds :
          /\ a # b
          /\ tasks[a].pc = "done" /\ tasks[b].pc = "done"
          /\ tasks[a].put /\ LastPut(b)
          /\ KeyOf(a) = KeyOf(b)
          /\ \E i \in 1..Len(cache) : cache[i].key = KeyOf(b)
          => \A i \in 1..Len(cache) :
                cache[i].key = KeyOf(b) => cache[i].intent = tasks[b].intent

\* two calls for one normalized query that both missed the cache while the
\* other was in flight, both stored an intent, a different one each, and
\* both finished; the first put had to evict
C6_Witness ==
    \E a \in TaskIds, b \in TaskIds :
        /\ tasks[a].pc = "done" /\ tasks[b].pc = "done"
        /\ tasks[a].put /\ tasks[b].put
        /\ tasks[a].putSeq < tasks[b].putSeq
        /\ tasks[a].query # tasks[b].query
        /\ KeyOf(a) = KeyOf(b)
        /\ tasks[a].intent # tasks[b].intent
        /\ Len(cache) = 901
        /\ \E i \in 1..Len(cache) :
              cache[i].key = KeyOf(b) /\ cache[i].intent = tasks[b].intent

(***************************************************************************)
\* C13: _generate_summary makes no LLM call and returns the fixed
\* no-results string when the list of transactions is empty; for a list
\* that is not empty it makes exactly one LLM call, with no second call
\* after a failure.
C13_OneSummaryCall ==
    \A t \in TaskIds :
        /\ tasks[t].llmCalls <= 1
        /\ tasks[t].pc = "summary" => tasks[t].llmCalls = 1 /\ tasks[t].result # <<>>
        /\ tasks[t].status = 200 =>
              IF tasks[t].result = <<>>
              THEN tasks[t].llmCalls = 0 /\ tasks[t].text = NoResults
              ELSE tasks[t].llmCalls = 1 /\ tasks[t].text # NoResults
                   /\ tasks[t].summary \in {"llm", "fallback"}
        /\ tasks[t].status = 500 => tasks[t].llmCalls = 0

\* a call whose one summary LLM call failed and was answered with the
\* template, and nothing was tried again
C13_Witness ==
    \E t \in TaskIds :
        /\ tasks[t].status = 200
        /\ tasks[t].result # <<>>
        /\ tasks[t].summary = "fallback"
        /\ tasks[t].llmCalls = 1

\* the spending of the transactions at the given places of a list
RECURSIVE SpendingAt(_, _)
SpendingAt(ids, places) ==
    IF places = {} THEN 0
    ELSE LET i == CHOOSE j \in places : TRUE
         IN  (IF Txn(ids[i]).amount < 0 THEN -Txn(ids[i]).amount ELSE 0)
             + SpendingAt(ids, places \ {i})

\* C14 as stated: whenever the returned list is not empty, total_amount is
\* minus the sum of |amount| over the returned transactions with a negative
\* amount, and total_amount is None only when no transaction is returned.
C14_TotalIsMinusSpending ==
    \A t \in TaskIds :
        tasks[t].status = 200 =>
            IF tasks[t].result = <<>> THEN tasks[t].total_amount.none
            ELSE /\ ~tasks[t].total_amount.none
                 /\ tasks[t].total_amount.value =
                        -SpendingAt(tasks[t].result, 1..Len(tasks[t].result))

(***************************************************************************)
(* Calls one after another around midnight: the dates of the query         *)
(***************************************************************************)

\* 23:40 UTC on the day of Boot
LateEvening == Boot + 13 * 3600 + 40 * 60

DateQueries == { <<"s","p","e","n","d"," ","t","o","d","a","y">>, <<" ","S","p","e","n","d"," ","T","o","d","a","y">>, <<"f","o","o","d">> }

\* an answer with dates of its own, and one that is no object
DatedDoc ==
    IntentDict(JNull, JStr(<<"2","0","2","4","-","0","3","-","0","1">>), JStr(<<"2","0","2","4","-","0","3","-","0","2">>), JList(<<>>),
               JBool(TRUE), JStr(<<"s","e","a","r","c","h">>))

DateReplies ==
    { [raises |-> TRUE, content |-> <<>>, doc |-> PyNone] }
    \cup { [raises |-> FALSE, content |-> <<"DOC">>, doc |-> d] :
               d \in {DatedDoc, NonDict("list")} }

DateOutcomes == { [embedding |-> "ok", query |-> "ok", ids |-> <<6, 3, 2, 1>>] }

InitDates ==
    /\ cache = <<>>
    /\ now = LateEvening
    /\ last = NoOp
    /\ hist = [k \in {CacheKey(q) : q \in DateQueries} |-> NoPut]
    /\ steps = 0
    /\ tasks = [t \in TaskIds |-> NoTask]
    /\ ledger = 1..Len(Txns)

NextDates ==
    \/ \E t \in TaskIds, q \in DateQueries : ArrivesAfter(t) /\ Start(t, q, TRUE)
    \/ \E t \in TaskIds, r \in DateReplies : IntentDone(t, r, TRUE)
    \/ \E t \in TaskIds, o \in DateOutcomes : SemanticDone(t, o, TRUE)
    \/ \E t \in TaskIds : SummaryDone(t, TRUE)
    \/ Tick(_CACHE_TTL \div 2)

SpecDates == InitDates /\ [][NextDates]_vars

\* parse_relative_date returned a range for the query of the call
RangeFound(t) == tasks[t].rel.start # NoDate /\ tasks[t].rel.end # NoDate

\* C11: whenever parse_relative_date returned a range for the query, the
\* intent handed to _get_relevant_transactions carries that range as its
\* start_date and end_date, whether it is a fresh LLM answer, the failure
\* default or a cached intent, one an earlier call wrote included; an
\* answer that is no dict is never handed to retrieval with a range.
C11_RangeOverridesIntentDates ==
    \A t \in TaskIds :
        RangeFound(t) /\ tasks[t].pc \notin {"idle", "intent"} =>
            IF tasks[t].intent.kind = "dict"
            THEN /\ tasks[t].intent.start_date = JStr(IsoFormat(tasks[t].rel.start))
                 /\ tasks[t].intent.end_date = JStr(IsoFormat(tasks[t].rel.end))
                 /\ tasks[t].start = tasks[t].rel.start
                 /\ tasks[t].end = tasks[t].rel.end
            ELSE tasks[t].error = "TypeError" /\ tasks[t].required = <<>>
                 /\ tasks[t].txns = <<>>

\* the first call stored an LLM answer with dates of its own under the
\* range of its day; after midnight the second call for the same key hit
\* that entry and went to retrieval with the range of the new day
C11_Witness ==
    /\ tasks[1].put /\ ~tasks[1].caught
    /\ tasks[1].returned = DatedDoc
    /\ tasks[2].hit /\ tasks[2].status = 200
    /\ tasks[2].query # tasks[1].query
    /\ tasks[2].rel.start = tasks[1].rel.start + 1
    /\ tasks[2].intent.start_date = JStr(IsoFormat(Ordinal(2024, 3, 16)))
    /\ tasks[2].result = <<>>
    /\ tasks[1].result = <<6>>

(***************************************************************************)
(* The same query run again: the summary LLM call up or down               *)
(***************************************************************************)

RunQueries == { <<"u","b","e","r">>, <<"f","o","o","d">>, <<"n","e","t","f","l","i","x">> }

RunReplies ==
    { [raises |-> TRUE, content |-> <<>>, doc |-> PyNone],
      [raises |-> FALSE, content |-> <<"DOC">>, doc |-> OneDoc] }

RunOutcomes == { [embedding |-> "ok", query |-> "ok", ids |-> <<6, 3, 2, 1>>] }

InitRuns ==
    /\ cache = <<>>
    /\ now = StartTime
    /\ last = NoOp
    /\ hist = [k \in {CacheKey(q) : q \in RunQueries} |-> NoPut]
    /\ steps = 0
    /\ tasks = [t \in TaskIds |-> NoTask]
    /\ ledger \in {1..Len(Txns), {1, 3, 6}}

NextRuns ==
    \/ \E t \in TaskIds, q \in RunQueries : ArrivesAfter(t) /\ Start(t, q, TRUE)
    \/ \E t \in TaskIds, r \in RunReplies : IntentDone(t, r, TRUE)
    \/ \E t \in TaskIds, o \in RunOutcomes : SemanticDone(t, o, TRUE)
    \/ \E t \in TaskIds, up \in BOOLEAN : SummaryDone(t, up)

SpecRuns == InitRuns /\ [][NextRuns]_vars

\* the years of the transactions of a list, and the part of the list that
\* falls in one year
YearsOf(ids) == {YearOf(Txn(ids[i]).date) : i \in 1..Len(ids)}

InYear(ids, y) == SelectSeq(ids, LAMBDA id : YearOf(Txn(id).date) = y)

\* the summary is the template: one entry per year, latest year first, with
\* the year's count and spending, when the list spans several years; the
\* count and total spending of the list otherwise
IsTemplateOf(text, ids) ==
    IF Cardinality(YearsOf(ids)) > 1
    THEN /\ text.kind = "breakdown"
         /\ {text.years[i].year : i \in 1..Len(text.years)} = YearsOf(ids)
         /\ \A i \in 1..Len(text.years) :
               /\ i > 1 => text.years[i].year < text.years[i - 1].year
               /\ text.years[i].count = Len(InYear(ids, text.years[i].year))
               /\ text.years[i].spending =
                      TotalSpending(InYear(ids, text.years[i].year))
    ELSE /\ text.kind = "found"
         /\ text.count = Len(ids)
         /\ text.spending = TotalSpending(ids)

\* C12: two runs of one query with the same intent over the same store and
\* index, the summary LLM call succeeding in one and failing in the other,
\* return the same transactions and the same total_amount, and the summary
\* of the failing run is the template built from the stats: the per-year
\* breakdown when the list spans more than one year, the total count and
\* total spending otherwise.
C12_SummaryFailureChangesOnlyText ==
    /\ \A a \in TaskIds, b \in TaskIds :
          /\ tasks[a].status = 200 /\ tasks[b].status = 200
          /\ tasks[a].query = tasks[b].query
          /\ tasks[a].intent = tasks[b].intent
          /\ tasks[a].summary = "llm" /\ tasks[b].summary = "fallback"
          => /\ tasks[a].result = tasks[b].result
             /\ tasks[a].total_amount = tasks[b].total_amount
    /\ \A b \in TaskIds :
          tasks[b].summary = "fallback" =>
              /\ tasks[b].status = 200
              /\ IsTemplateOf(tasks[b].text, tasks[b].result)

\* the run with the LLM's summary and the run with the template returned
\* the same two transactions of two years and the same total
C12_Witness ==
    /\ tasks[1].status = 200 /\ tasks[1].summary = "llm"
    /\ tasks[2].status = 200 /\ tasks[2].summary = "fallback"
    /\ tasks[1].query = tasks[2].query
    /\ tasks[1].intent = tasks[2].intent
    /\ tasks[2].result = <<2, 1>>
    /\ tasks[2].text.kind = "breakdown"
    /\ Len(tasks[2].text.years) = 2
    /\ tasks[2].total_amount = [none |-> FALSE, value |-> -5000]

(***************************************************************************)
(* One call over a ledger with many rows of one merchant                   *)
(***************************************************************************)

BulkQueries == { <<"s","w","e","e","t","g","r","e","e","n">>, <<"S","w","e","e","t","g","r","e","e","n"," ","l","u","n","c","h">>, <<"f","o","o","d">>, <<"s","a","l","a","d"," ","s","p","e","n","d">> }

BulkDocs ==
    { IntentDict(JStr(<<"F","o","o","d"," ","&"," ","D","i","n","i","n","g">>), JNull, JNull, JList(<< <<"s","w","e","e","t","g","r","e","e","n">> >>),
                 JBool(TRUE), JStr(<<"s","e","a","r","c","h">>)),
      IntentDict(JStr(<<"F","o","o","d"," ","&"," ","D","i","n","i","n","g">>), JStr(<<"2","0","2","4","-","0","1","-","1","0">>), JStr(<<"2","0","2","4","-","0","2","-","2","0">>),
                 JList(<<>>), JBool(TRUE), JStr(<<"s","e","a","r","c","h">>)),
      IntentDict(JNull, JNull, JNull, JList(<< <<"s","a","l","a","d">>, <<"e","a","t","s">> >>),
                 JBool(TRUE), JStr(<<"s","e","a","r","c","h">>)) }

BulkReplies ==
    { [raises |-> TRUE, content |-> <<>>, doc |-> PyNone] }
    \cup { [raises |-> FALSE, content |-> <<"DOC">>, doc |-> d] : d \in BulkDocs }

\* the index ranks nothing, a few rows, or more rows than it is asked for
BulkOutcomes ==
    { [embedding |-> "ok", query |-> "ok", ids |-> a] :
          a \in { <<>>, <<2, 7, 8, 9>>, SubSeq(TxnIds, 5, Len(TxnIds)) } }

BulkLedgers == { {2, 5} \cup Bulk(n) : n \in {3, FewResults, BulkRows} }

InitBulk ==
    /\ cache = <<>>
    /\ now = StartTime
    /\ last = NoOp
    /\ hist = [k \in {CacheKey(q) : q \in BulkQueries} |-> NoPut]
    /\ steps = 0
    /\ tasks = [t \in TaskIds |-> NoTask]
    /\ ledger \in BulkLedgers

NextBulk ==
    \/ \E q \in BulkQueries : Start(1, q, TRUE)
    \/ \E r \in BulkReplies : IntentDone(1, r, TRUE)
    \/ \E o \in BulkOutcomes : SemanticDone(1, o, TRUE)
    \/ \E up \in BOOLEAN : SummaryDone(1, up)

SpecBulk == InitBulk /\ [][NextBulk]_vars

\* the candidates that survive the date and category filters
Survivors(t) ==
    CategoryFilter(DateFilter(tasks[t].txns, tasks[t].start, tasks[t].end),
                   tasks[t].category, tasks[t].keywords, tasks[t].required)

Members(ids) == {ids[i] : i \in 1..Len(ids)}

\* C15: the list _get_relevant_transactions returns is in non-increasing
\* date order and has at most 200 entries; it holds survivors of the
\* filters only, all of them when they are at most 200, and otherwise the
\* 200 most recent: no survivor left out has a later date than one returned.
C15_SortedNewestFirstAtMost200 ==
    \A t \in TaskIds :
        Retrieved(t) =>
            LET r == tasks[t].result
                s == Survivors(t)
            IN  /\ Len(r) <= 200
                /\ Len(r) = (IF Len(s) < 200 THEN Len(s) ELSE 200)
                /\ \A i \in 1..Len(r) :
                      i > 1 => Txn(r[i - 1]).date >= Txn(r[i]).date
                /\ Members(r) \subseteq Members(s)
                /\ \A c \in Members(s) \ Members(r), x \in Members(r) :
                      Txn(c).date <= Txn(x).date

\* more than 200 candidates survived, 200 were returned, and one left out
\* has the date of the oldest returned
C15_Witness ==
    \E t \in TaskIds :
        /\ Retrieved(t)
        /\ Len(Survivors(t)) > 200
        /\ Len(tasks[t].result) = 200
        /\ \E c \in Members(Survivors(t)) \ Members(tasks[t].result) :
              Txn(c).date = Txn(tasks[t].result[200]).date
        /\ Txn(tasks[t].result[1]).date > Txn(tasks[t].result[200]).date

\* C19: a query that names a lexicon brand without a tag rule of its own
\* returns only transactions whose description contains a brand the query
\* names, for every intent and any number of brand hits in the ledger
C19_OnlyTheNamedBrand ==
    \A t \in TaskIds :
        (Retrieved(t) /\ tasks[t].keywords # <<>> /\ tasks[t].required = <<>>) =>
            \A i \in 1..Len(tasks[t].result) :
                \E k \in 1..Len(tasks[t].keywords) :
                    Contains(Lower(Txn(tasks[t].result[i]).description), tasks[t].keywords[k])

\* the spending of the transactions at the places lo..hi of a list
RECURSIVE SpentBetween(_, _, _)
SpentBetween(ids, lo, hi) ==
    IF lo > hi THEN 0
    ELSE IF lo = hi
    THEN (IF Txn(ids[lo]).amount < 0 THEN -Txn(ids[lo]).amount ELSE 0)
    ELSE SpentBetween(ids, lo, (lo + hi) \div 2)
         + SpentBetween(ids, ((lo + hi) \div 2) + 1, hi)

\* C30: the numbers of a QueryResponse describe exactly the transactions
\* it returns: the stats are taken over the final list, after the date and
\* category filters and the cut to 200, so total_count is the length of
\* the returned list, and total_spending and total_amount count only
\* returned transactions.
C30_StatsDescribeReturnedList ==
    \A t \in TaskIds :
        tasks[t].status = 200 =>
            LET r == tasks[t].result
                spent == SpentBetween(r, 1, Len(r))
            IN  /\ tasks[t].stats.total_count = Len(r)
                /\ tasks[t].stats.empty <=> r = <<>>
                /\ tasks[t].stats.total_spending = spent
                /\ tasks[t].total_amount.none <=> spent = 0
                /\ ~tasks[t].total_amount.none => tasks[t].total_amount.value = -spent
                /\ tasks[t].text.kind = "found" =>
                      tasks[t].text.count = Len(r) /\ tasks[t].text.spending = spent

\* more than 200 candidates survived the filters and 200 were returned:
\* the count is 200 and the spending is less than that of the candidates
C30_Witness ==
    \E t \in TaskIds :
        /\ tasks[t].status = 200
        /\ Len(Survivors(t)) > 200
        /\ Len(tasks[t].result) = 200
        /\ tasks[t].stats.total_count = 200
        /\ ~tasks[t].total_amount.none
        /\ -tasks[t].total_amount.value <
              SpentBetween(tasks[t].txns, 1, Len(tasks[t].txns))

(***************************************************************************)
(* SpecStats: _calculate_stats as a function of its list.  Every call is   *)
(* given the same list of distinct rows; a call that has not been made     *)
(* keeps the list as it was passed.                                        *)
(***************************************************************************)

\* the longest list
StatLen == 3

\* rows of two years, three sources, with and without a category, debits
\* and credits, whole dollars and cents
StatRows == {1, 2, 6, 7, 8, 10}

StatLists ==
    {s \in UNION {[1..n -> StatRows] : n \in 1..StatLen} :
        \A i, j \in DOMAIN s : i # j => s[i] # s[j]}

InitStats ==
    /\ cache = <<>>
    /\ now = StartTime
    /\ last = NoOp
    /\ hist = [k \in ActiveKeys |-> NoPut]
    /\ steps = 0
    /\ ledger = StatRows
    /\ \E list \in StatLists : tasks = [t \in TaskIds |-> [NoTask EXCEPT !.result = list]]

\* stats = _calculate_stats(transactions)
Calculate(t) ==
    /\ tasks[t].pc = "idle"
    /\ tasks' = [tasks EXCEPT ![t] =
           [@ EXCEPT !.pc = "stats", !.stats = CalculateStats(tasks[t].result),
                     !.floats = Floats(tasks[t].result)]]
    /\ UNCHANGED <<cache, now, last, hist, steps, ledger>>

NextStats == \E t \in TaskIds : Calculate(t)

SpecStats == InitStats /\ [][NextStats]_vars

RECURSIVE SumOf(_, _)
SumOf(groups, field) ==
    IF groups = <<>> THEN 0 ELSE groups[1][field] + SumOf(Tail(groups), field)

\* the floats of a field of the groups added up, first group first
RECURSIVE Sum64Of(_, _, _)
Sum64Of(groups, field, acc) ==
    IF groups = <<>> THEN acc
    ELSE Sum64Of(Tail(groups), field, FAdd(acc, groups[1][field]))

\* two sums of the same n amounts taken in different orders: they are at
\* most n * 2^-52 times the sum apart
Near(a, b, n) ==
    LET tol == BigShr(BigMulSmall(b, n), 52)
    IN  BigLeq(a, BigAdd(b, tol)) /\ BigLeq(b, BigAdd(a, tol))

\* the cents a two-decimal format of the float shows
Cents64(x) ==
    LET y == BigMulSmall(x, 100)
        q == BigShr(y, 64)
        up == /\ BigBit(y, 63) = 1
              /\ (BigAnyBelow(y, 63) \/ BigBit(q, 0) = 1)
    IN  IF up THEN BigAdd(q, BigOf(1)) ELSE q

StatDims == {"by_year", "by_source", "by_month", "by_category"}

KeyOfDim(dim) ==
    CASE dim = "by_year" -> YearKey
      [] dim = "by_source" -> SourceKey
      [] dim = "by_month" -> MonthKey
      [] OTHER -> CategoryKey

\* the groups of a dimension are the keys of the list, each once, each with
\* the number of its transactions
CountsPartition(list, groups, keyOf) ==
    /\ \A i \in DOMAIN list : \E g \in DOMAIN groups : groups[g].key = keyOf[list[i]]
    /\ \A g, h \in DOMAIN groups : groups[g].key = groups[h].key => g = h
    /\ \A g \in DOMAIN groups :
          groups[g].count = Cardinality({i \in DOMAIN list : keyOf[list[i]] = groups[g].key})
    /\ SumOf(groups, "count") = Len(list)

Calculated(t) == tasks[t].pc = "stats"

UpperChar(ch) ==
    IF \E i \in 1..26 : LowerChars[i] = ch
    THEN UpperChars[CHOOSE i \in 1..26 : LowerChars[i] = ch]
    ELSE ch

\* category tags that transactions of different brands share
GateTags == << <<"r","i","d","e","s","h","a","r","e">>, <<"a","i","r","l","i","n","e">>, <<"f","l","i","g","h","t">>, <<"r","e","s","t","a","u","r","a","n","t">> >>

\* what statements put after the merchant's name
GateSuffixes == << <<" ","1","2">>, <<" ","A","I"," ","1","7">>, <<" ","A","I","R"," ","L","I","N","E","S">> >>

\* transaction k: the description is a brand in capitals and a suffix; it
\* has no tags, or the tags are the brand and one category tag
GateBrandOf(k) == Brands[((k - 1) \div (Len(GateSuffixes) * (Len(GateTags) + 1))) + 1]

GateTxn(k) ==
    LET j == (k - 1) % (Len(GateTags) + 1)
        s == ((k - 1) \div (Len(GateTags) + 1)) % Len(GateSuffixes)
        b == GateBrandOf(k)
    IN  [description |-> [i \in 1..Len(b) |-> UpperChar(b[i])] \o GateSuffixes[s + 1],
         tags |-> IF j = 0 THEN <<>> ELSE <<b, GateTags[j]>>]

GateTxnIds ==
    [k \in 1..(Len(Brands) * Len(GateSuffixes) * (Len(GateTags) + 1)) |-> k]

\* the merchants every run holds transactions of
GateMerchants ==
    { <<"u","b","e","r">>, <<"l","y","f","t">>, <<"s","t","a","r","b","u","c","k","s">>, <<"c","h","i","p","o","t","l","e">>, <<"s","w","e","e","t","g","r","e","e","n">>, <<"n","e","t","f","l","i","x">>,
      <<"e","m","i","r","a","t","e","s">>, <<"d","e","l","t","a">>, <<"j","e","t","b","l","u","e">>, <<"b","r","i","t","i","s","h"," ","a","i","r","w","a","y","s">>, <<"a","i","r"," ","c","a","n","a","d","a">> }

\* the transactions of a run: those of the merchants, and those of the
\* brands the query names
GateTxnsFor(query) ==
    LET named == ExtractBrandKeywords(Lower(query))
    IN  SelectSeq(GateTxnIds,
            LAMBDA k : GateBrandOf(k) \in GateMerchants \/ InList(named, GateBrandOf(k)))

\* queries that hold phrases of both tiers, several phrases of one tier,
\* or none
TierQueries ==
    { <<"s","t","a","r","b","u","c","k","s"," ","c","o","f","f","e","e">>, <<"c","o","f","f","e","e"," ","a","t"," ","s","t","a","r","b","u","c","k","s">>, <<"l","y","f","t"," ","o","r"," ","u","b","e","r"," ","e","a","t","s">>,
      <<"u","n","i","t","e","d"," ","f","l","i","g","h","t","s">>, <<"A","i","r","b","n","b"," ","a","n","d"," ","h","o","t","e","l","s">>, <<"h","o","t","e","l"," ","s","u","b","s","c","r","i","p","t","i","o","n","s">>,
      <<"g","r","o","c","e","r","y"," ","d","e","l","i","v","e","r","y">>, <<"h","o","w"," ","m","u","c","h"," ","d","i","d"," ","i"," ","s","p","e","n","d"," ","l","a","s","t"," ","m","o","n","t","h">> }

\* the query is a brand, or a sentence around it, or asks for airlines
GateQueries ==
    UNION {{Brands[i], <<"m","y"," ">> \o Brands[i] \o <<" ","s","p","e","n","d">>} : i \in 1..Len(Brands)}
    \cup { <<"f","l","i","g","h","t","s">>, <<"a","i","r","l","i","n","e"," ","s","p","e","n","d">>, <<"p","l","a","n","e"," ","t","i","c","k","e","t","s"," ","i","n"," ","2","0","2","4">> }
    \cup TierQueries

InitGate ==
    /\ cache = <<>>
    /\ now = StartTime
    /\ last = NoOp
    /\ hist = [k \in ActiveKeys |-> NoPut]
    /\ steps = 0
    /\ ledger = {}
    /\ \E q \in GateQueries :
          tasks = [t \in TaskIds |->
                      IF t = 1 THEN [NoTask EXCEPT !.query = q, !.txns = GateTxnsFor(q)]
                      ELSE NoTask]

\* required_tags = _get_required_tags(query_lower), brand_keywords =
\* _extract_brand_keywords(query_lower), then _has_required_tags on every
\* transaction
Gate(t) ==
    /\ tasks[t].pc = "idle"
    /\ tasks[t].query # <<>>
    /\ LET required == GetRequiredTags(Lower(tasks[t].query))
       IN  tasks' = [tasks EXCEPT ![t] =
               [@ EXCEPT !.pc = "gated",
                         !.required = required,
                         !.keywords = ExtractBrandKeywords(Lower(tasks[t].query)),
                         !.result = SelectSeq(tasks[t].txns,
                                       LAMBDA k : HasRequiredTags(GateTxn(k), required))]]
    /\ UNCHANGED <<cache, now, last, hist, steps, ledger>>

NextGate == \E t \in TaskIds : Gate(t)

SpecGate == InitGate /\ [][NextGate]_vars

\* the description holds the brand
OfBrand(txn, b) == Contains(Lower(txn.description), b)

\* the description and the tags name another brand and not this one
OfOtherBrand(txn, b) ==
    /\ ~OfBrand(txn, b)
    /\ \A j \in 1..Len(txn.tags) : ~Contains(Lower(txn.tags[j]), b)
    /\ \E i \in 1..Len(Brands) : Brands[i] # b /\ OfBrand(txn, Brands[i])

\* C17: for every lexicon brand in the query, the gate accepts every
\* transaction whose description holds the brand and rejects every
\* transaction of another brand, whatever category tag the two share
C17_BrandGate ==
    \A t \in TaskIds : tasks[t].pc = "gated" =>
        \A i \in 1..Len(tasks[t].keywords) : \A k \in 1..Len(tasks[t].txns) :
            LET b == tasks[t].keywords[i]
                txn == GateTxn(tasks[t].txns[k])
                accepted == InList(tasks[t].result, tasks[t].txns[k])
            IN  /\ OfBrand(txn, b) => accepted
                /\ OfOtherBrand(txn, b) => ~accepted

\* what the gate does keep: for a brand whose tag rule names the brand
\* itself, every description with the brand is accepted and every
\* transaction of another brand is rejected
OwnRuleGate ==
    \A t \in TaskIds : tasks[t].pc = "gated" =>
        \A i \in 1..Len(tasks[t].keywords) : \A k \in 1..Len(tasks[t].txns) :
            LET b == tasks[t].keywords[i]
                txn == GateTxn(tasks[t].txns[k])
                accepted == InList(tasks[t].result, tasks[t].txns[k])
            IN  tasks[t].required = <<b>> =>
                   /\ OfBrand(txn, b) => accepted
                   /\ OfOtherBrand(txn, b) => ~accepted

AirlinePair == << <<"a","i","r","l","i","n","e">>, <<"f","l","i","g","h","t">> >>

\* the curated airline fragments
AirlineFragments == AirlineWords \cup AirlineWithAir \cup BudgetAirlines

\* C18: when the required tags are ["airline", "flight"], a transaction is
\* accepted iff its lowercased description contains one of the curated
\* airline fragments; two transactions with the same description get the
\* same result whatever their tags, and a transaction tagged airline or
\* flight whose description has no fragment is rejected
C18_AirlineByDescriptionAlone ==
    \A t \in TaskIds : (tasks[t].pc = "gated" /\ tasks[t].required = AirlinePair) =>
        LET accepted(k) == InList(tasks[t].result, k)
        IN  /\ \A i \in 1..Len(tasks[t].txns) :
                  LET k == tasks[t].txns[i]
                  IN  accepted(k) <=>
                         \E f \in AirlineFragments :
                             Contains(Lower(GateTxn(k).description), f)
            /\ \A i, j \in 1..Len(tasks[t].txns) :
                  LET k == tasks[t].txns[i]
                      l == tasks[t].txns[j]
                  IN  GateTxn(k).description = GateTxn(l).description
                         => (accepted(k) <=> accepted(l))

\* an airline query was gated: "EMIRATES AI 17" without tags is accepted,
\* "EMIRATES 12" tagged airline and "UBER 12" tagged flight are rejected
C18_Witness ==
    /\ tasks[1].pc = "gated"
    /\ tasks[1].required = AirlinePair
    /\ \E i, j, l \in 1..Len(tasks[1].txns) :
          LET a == GateTxn(tasks[1].txns[i])
              b == GateTxn(tasks[1].txns[j])
              c == GateTxn(tasks[1].txns[l])
          IN  /\ a.description = <<"E","M","I","R","A","T","E","S"," ","A","I"," ","1","7">> /\ a.tags = <<>>
              /\ InList(tasks[1].result, tasks[1].txns[i])
              /\ b.description = <<"E","M","I","R","A","T","E","S"," ","1","2">> /\ b.tags = << <<"e","m","i","r","a","t","e","s">>, <<"a","i","r","l","i","n","e">> >>
              /\ ~InList(tasks[1].result, tasks[1].txns[j])
              /\ c.description = <<"U","B","E","R"," ","1","2">> /\ c.tags = << <<"u","b","e","r">>, <<"f","l","i","g","h","t">> >>
              /\ ~InList(tasks[1].result, tasks[1].txns[l])

\* the first phrase of an ordered table that the query holds, or 0
FirstPhrase(table, query) ==
    IF \E i \in 1..Len(table) : Contains(query, table[i][1])
    THEN CHOOSE i \in 1..Len(table) :
            /\ Contains(query, table[i][1])
            /\ \A j \in 1..(i - 1) : ~Contains(query, table[j][1])
    ELSE 0

\* the tags the category tier can give
CategoryTierTags ==
    UNION {{CategoryTags[i][2][j] : j \in 1..Len(CategoryTags[i][2])} :
               i \in 1..Len(CategoryTags)}

\* the tags are those of the first brand phrase the query holds; those of
\* the first category phrase when it holds no brand phrase; none otherwise
FirstMatchWins ==
    \A t \in TaskIds :
        tasks[t].pc = "gated" =>
            LET q == Lower(tasks[t].query)
                b == FirstPhrase(BrandTags, q)
                c == FirstPhrase(CategoryTags, q)
            IN  tasks[t].required =
                    (IF b # 0 THEN BrandTags[b][2]
                     ELSE IF c # 0 THEN CategoryTags[c][2] ELSE <<>>)

\* C26: _get_required_tags is a two-tier first-match-wins lookup: with a
\* brand phrase in the query the result is the tag set of the first such
\* phrase in declared order and holds no tag of the category tier; the
\* category tier is consulted only without a brand phrase, first match in
\* declared order; the result is empty when nothing matches.
C26_TwoTierFirstMatch ==
    \A t \in TaskIds :
        tasks[t].pc = "gated" =>
            LET q == Lower(tasks[t].query)
                b == FirstPhrase(BrandTags, q)
                c == FirstPhrase(CategoryTags, q)
                required == tasks[t].required
            IN  IF b # 0
                THEN /\ required = BrandTags[b][2]
                     /\ \A j \in 1..Len(required) : required[j] \notin CategoryTierTags
                ELSE IF c # 0 THEN required = CategoryTags[c][2]
                ELSE required = <<>>

(***************************************************************************)
(* SpecMonth: parse_relative_date as a function of the query and of the    *)
(* day the clock shows.                                                    *)
(***************************************************************************)

\* how many days in a row the clock may show, from 2023-12-01 on
DaySpan == 500

\* noon of the days from 2023-12-01 on, and of the first hundred days of 2000
MonthClocks ==
    { (d - Ordinal(1970, 1, 1)) * SecondsPerDay + 12 * 3600 :
        d \in (Ordinal(2023, 12, 1)..(Ordinal(2023, 12, 1) + DaySpan - 1))
              \cup (Ordinal(2000, 1, 1)..(Ordinal(2000, 1, 1) + 99)) }

MonthQueries ==
    { <<"l","a","s","t"," ","m","o","n","t","h">>, <<"U","b","e","r"," ","s","p","e","n","d"," ","L","a","s","t"," ","M","o","n","t","h">>, <<"l","a","s","t"," ","m","o","n","t","h"," ","v","s"," ","t","h","i","s"," ","m","o","n","t","h">>,
      <<"t","o","d","a","y"," ","a","n","d"," ","l","a","s","t"," ","m","o","n","t","h">> }

InitMonth ==
    /\ cache = <<>>
    /\ now \in MonthClocks
    /\ last = NoOp
    /\ hist = [k \in ActiveKeys |-> NoPut]
    /\ steps = 0
    /\ ledger = {}
    /\ \E q \in MonthQueries :
          tasks = [t \in TaskIds |-> IF t = 1 THEN [NoTask EXCEPT !.query = q] ELSE NoTask]

\* rel_start, rel_end = parse_relative_date(query)
Resolve(t) ==
    /\ tasks[t].pc = "idle"
    /\ tasks[t].query # <<>>
    /\ tasks' = [tasks EXCEPT ![t] =
           [@ EXCEPT !.pc = "parsed",
                     !.rel = ParseRelativeDate(tasks[t].query, Today(now))]]
    /\ UNCHANGED <<cache, now, last, hist, steps, ledger>>

NextMonth == \E t \in TaskIds : Resolve(t)

SpecMonth == InitMonth /\ [][NextMonth]_vars

\* the phrases parse_relative_date tests before "last month"
HigherPrecedence(q) ==
    \E p \in { <<"y","e","s","t","e","r","d","a","y">>, <<"t","o","d","a","y">>, <<"t","h","i","s"," ","w","e","e","k">>, <<"l","a","s","t"," ","w","e","e","k">>, <<"t","h","i","s"," ","m","o","n","t","h">> } :
        Contains(Lower(q), p)

\* C20: on every day, a query with "last month" and no phrase of higher
\* precedence resolves to the first and the last day of the calendar month
\* before the month of that day: December of the year before in January,
\* and a February of 29 days in a leap year
C20_LastMonthIsPreviousCalendarMonth ==
    \A t \in TaskIds :
        (/\ tasks[t].pc = "parsed"
         /\ Contains(Lower(tasks[t].query), <<"l","a","s","t"," ","m","o","n","t","h">>)
         /\ ~HigherPrecedence(tasks[t].query)) =>
            LET y == YearOf(Today(now))
                m == MonthOf(Today(now))
                py == IF m = 1 THEN y - 1 ELSE y
                pm == IF m = 1 THEN 12 ELSE m - 1
                len == CASE pm \in {4, 6, 9, 11} -> 30
                         [] pm = 2 -> (IF IsLeap(py) THEN 29 ELSE 28)
                         [] OTHER -> 31
                rel == tasks[t].rel
            IN  /\ rel.err = "none"
                /\ YearOf(rel.start) = py /\ MonthOf(rel.start) = pm /\ DayOf(rel.start) = 1
                /\ YearOf(rel.end) = py /\ MonthOf(rel.end) = pm /\ DayOf(rel.end) = len
                /\ rel.end - rel.start = len - 1

\* on 2024-03-15 "Uber spend Last Month" resolved to 2024-02-01 .. 2024-02-29
C20_Witness ==
    /\ Today(now) = Ordinal(2024, 3, 15)
    /\ tasks[1].pc = "parsed"
    /\ tasks[1].query = <<"U","b","e","r"," ","s","p","e","n","d"," ","L","a","s","t"," ","M","o","n","t","h">>
    /\ tasks[1].rel = RelDates(Ordinal(2024, 2, 1), Ordinal(2024, 2, 29))

(***************************************************************************)
(* SpecParse: parse_relative_date over queries of every branch, with small *)
(* and large counts and years, on days around a year's end and a leap day  *)
(***************************************************************************)

ParseQueries ==
    { <<"n","o","t","h","i","n","g"," ","h","e","r","e">>, <<"Y","e","s","t","e","r","d","a","y">>, <<"s","p","e","n","d"," ","t","o","d","a","y">>, <<"y","e","a","r"," ","t","o"," ","d","a","t","e"," ","t","o","d","a","y">>,
      <<"t","h","i","s"," ","w","e","e","k">>, <<"l","a","s","t"," ","w","e","e","k">>, <<"t","h","i","s"," ","m","o","n","t","h">>, <<"l","a","s","t"," ","m","o","n","t","h">>, <<"t","h","i","s"," ","y","e","a","r">>,
      <<"l","a","s","t"," ","y","e","a","r">>, <<"y","t","d">>, <<"l","a","s","t"," ","0"," ","d","a","y","s">>, <<"l","a","s","t"," ","7"," ","d","a","y","s">>, <<"p","a","s","t"," "," ","2"," ","w","e","e","k","s">>,
      <<"l","a","s","t"," ","3"," ","m","o","n","t","h","s">>, <<"l","a","s","t"," ","8","0","0","0","0","0"," ","d","a","y","s">>, <<"p","a","s","t"," ","2","0","0","0","0","0"," ","w","e","e","k","s">>,
      <<"l","a","s","t"," ","3","0","0","0","0"," ","m","o","n","t","h","s">>, <<"i","n"," ","m","a","r","c","h"," ","2","0","2","4">>, <<"i","n"," ","a","p","r","i","l">>, <<"f","o","r"," ","d","e","c"," ","9","9","9","9">>,
      <<"d","u","r","i","n","g"," ","s","e","p","t"," ","2","0","2","3">>, <<"i","n"," ","f","e","b","r","u","a","r","y"," ","2","0","2","3">>, <<"i","n"," ","m","a","y"," ","0","0","0","1">>, <<"i","n"," ","m","a","r","c","h"," ","0","0","0","0">> }

\* noon of the days from 2023-12-28 to 2024-01-05, of 2024-02-29 and of
\* 2024-03-15
ParseClocks ==
    { (d - Ordinal(1970, 1, 1)) * SecondsPerDay + 12 * 3600 :
        d \in (Ordinal(2023, 12, 28)..Ordinal(2024, 1, 5))
              \cup {Ordinal(2024, 2, 29), Ordinal(2024, 3, 15)} }

InitParse ==
    /\ cache = <<>>
    /\ now \in ParseClocks
    /\ last = NoOp
    /\ hist = [k \in ActiveKeys |-> NoPut]
    /\ steps = 0
    /\ ledger = {}
    /\ \E q \in ParseQueries :
          tasks = [t \in TaskIds |-> IF t = 1 THEN [NoTask EXCEPT !.query = q] ELSE NoTask]

NextParse == \E t \in TaskIds : Resolve(t)

SpecParse == InitParse /\ [][NextParse]_vars

\* both dates or neither, and the start not after the end
WellFormed(rel) ==
    \/ rel.start = NoDate /\ rel.end = NoDate
    \/ rel.start # NoDate /\ rel.end # NoDate /\ rel.start <= rel.end

\* whenever parse_relative_date returns, it returns neither date or both,
\* the start not after the end
ReturnsWellFormed ==
    \A t \in TaskIds :
        (tasks[t].pc = "parsed" /\ tasks[t].rel.err = "none") => WellFormed(tasks[t].rel)

\* C27: parse_relative_date is total and well-formed: for every query and
\* every day it returns, without raising, either no dates or a start and
\* an end with the start not after the end, also for "last N days", "past
\* N weeks", "last N months" with any digits N and for a named month
\* followed by any four digits.
C27_TotalAndWellFormed ==
    \A t \in TaskIds :
        tasks[t].pc = "parsed" =>
            /\ tasks[t].rel.err = "none"
            /\ WellFormed(tasks[t].rel)

(***************************************************************************)
(* SpecPhases: one call at a time over queries with and without a brand    *)
(* keyword and a tag rule, intents with each kind of category, date range  *)
(* and search terms, and ledgers on both sides of the fifty candidates     *)
(***************************************************************************)

PhaseQueries ==
    { <<"u","b","e","r">>, <<"s","w","e","e","t","g","r","e","e","n">>, <<"f","l","i","g","h","t","s">>, <<"m","y"," ","r","i","d","e","s","h","a","r","e">>, <<"f","o","o","d">>,
      <<"s","p","e","n","d"," ","i","n"," ","m","a","r","c","h"," ","2","0","2","4">> }

PhaseCategories ==
    { JNull, JStr(<<"T","r","a","v","e","l">>), JStr(<<"F","o","o","d"," ","&"," ","D","i","n","i","n","g">>), JStr(<<"T","r","a","n","s","p","o","r","t","a","t","i","o","n">>),
      JStr(<<"R","i","d","e","s">>) }

\* <<start_date, end_date>>
PhaseDates ==
    { <<JNull, JNull>>, <<JStr(<<"2","0","2","4","-","0","3","-","0","1">>), JNull>>,
      <<JStr(<<"2","0","2","4","-","0","2","-","1","0">>), JStr(<<"2","0","2","4","-","0","3","-","1","0">>)>> }

PhaseTerms ==
    { JList(<<>>), JList(<< <<"u","b","e","r">> >>), JList(<< <<"d","e","l","i","v","e","r","y">> >>),
      JList(<< <<"s","w","e","e","t","g","r","e","e","n">> >>), JList(<< <<"f","l","i","g","h","t","s">>, <<"e","a","t">>, <<"r","i","d","e">> >>) }

PhaseDocs ==
    { IntentDict(c, d[1], d[2], s, JBool(TRUE), JStr(<<"s","e","a","r","c","h">>)) :
          c \in PhaseCategories, d \in PhaseDates, s \in PhaseTerms }

PhaseReplies ==
    { [raises |-> TRUE, content |-> <<>>, doc |-> PyNone] }
    \cup { [raises |-> FALSE, content |-> <<"DOC">>, doc |-> d] : d \in PhaseDocs }

\* the index ranks nothing, a few rows, or more rows than fifty
PhaseOutcomes ==
    { [embedding |-> "ok", query |-> "ok", ids |-> a] :
          a \in { <<>>, <<5, 4>>, <<6, 3, 2, 1>>, SubSeq(TxnIds, 5, Len(Txns) + 60) } }

PhaseLedgers ==
    { 1..6, {1, 3, 6}, {2, 5} \cup Bulk(3),
      1..6 \cup Bulk(FewResults - 1), 1..6 \cup Bulk(FewResults) }

InitPhases ==
    /\ cache = <<>>
    /\ now = StartTime
    /\ last = NoOp
    /\ hist = [k \in {CacheKey(q) : q \in PhaseQueries} |-> NoPut]
    /\ steps = 0
    /\ tasks = [t \in TaskIds |-> NoTask]
    /\ ledger \in PhaseLedgers

NextPhases ==
    \/ \E q \in PhaseQueries : Start(1, q, TRUE)
    \/ \E r \in PhaseReplies : IntentDone(1, r, TRUE)
    \/ \E o \in PhaseOutcomes : SemanticDone(1, o, TRUE)
    \/ \E up \in BOOLEAN : SummaryDone(1, up)

SpecPhases == InitPhases /\ [][NextPhases]_vars

\* the intent the call retrieves with is a dict whose search_terms iterate
HasTerms(t) ==
    /\ tasks[t].intent.kind = "dict"
    /\ SearchTerms(tasks[t].intent.search_terms).err = "none"

\* the merchant terms of the call's intent
MerchantTermsOf(t) == MerchantTerms(SearchTerms(tasks[t].intent.search_terms).terms)

\* the ledger holds a row, outside the brand hits, whose description holds
\* the term or its variant
TermHits(t, term) ==
    \E i \in ledger, v \in 1..2 :
        /\ Contains(Lower(Txn(i).description), Lower(SearchVariants(term)[v]))
        /\ ~HoldsBrandKeyword(t, Txn(i))

\* some merchant term of the intent has such a row
MerchantHit(t) ==
    HasTerms(t) /\ \E k \in 1..Len(MerchantTermsOf(t)) : TermHits(t, MerchantTermsOf(t)[k])

\* C21: within one query the Semantic Index is searched at most once, only
\* after the brand search and the term search are over (their candidates
\* and matched terms are final when the index is called), and only if the
\* query holds no brand keyword and no term matched; when a brand keyword
\* was found or a term matched, the index is never called.
C21_SemanticOnceAfterBrandAndTerms ==
    \A t \in TaskIds :
        /\ tasks[t].indexCalls <= 1
        /\ tasks[t].indexCalls = 1 =>
              /\ KeywordsOf(t) = <<>>
              /\ ~MerchantHit(t)
              /\ tasks[t].matched = <<>>
              /\ tasks[t].pc = "semantic" => tasks[t].txns = <<>>
        /\ (KeywordsOf(t) # <<>> \/ MerchantHit(t)) => tasks[t].indexCalls = 0
        /\ (tasks[t].semantic # "none" \/ tasks[t].pc = "semantic") =>
              tasks[t].indexCalls = 1

\* the term search looked for a merchant term and found only a row that
\* holds it in its tags; the index was then searched once and its rows
\* were returned
C21_Witness ==
    \E t \in TaskIds :
        /\ tasks[t].status = 200
        /\ tasks[t].indexCalls = 1
        /\ tasks[t].semantic = "answered"
        /\ tasks[t].result # <<>>
        /\ HasTerms(t) /\ MerchantTermsOf(t) # <<>>
        /\ SearchTransactions(ledger, MerchantTermsOf(t)[1], TermSearchLimit) # <<>>

\* the category, start and end the call's intent parses to
CategoryOf(t) == ParseCategoryField(tasks[t].intent.category)

StartOf(t) == ParseDateField(tasks[t].intent.start_date).date

EndOf(t) == ParseDateField(tasks[t].intent.end_date).date

\* the rows the category fetch added to the candidates
AddedByFetch(t) ==
    SubSeq(tasks[t].txns, Len(tasks[t].beforeD) + 1, Len(tasks[t].txns))

\* the ledger's rows of the category inside the date range
InCategoryAndRange(t) ==
    {i \in ledger :
        /\ Txn(i).category = CategoryOf(t)
        /\ StartOf(t) # NoDate => Txn(i).date >= StartOf(t)
        /\ EndOf(t) # NoDate => Txn(i).date <= EndOf(t)}

BrandHit(t) == \E i \in ledger : HoldsBrandKeyword(t, Txn(i))

\* C23: the category fetch is skipped whenever the brand direct search or
\* the merchant-term search produced matches; it runs only when there is
\* a category, few results, and neither brand matches nor merchant matches.
C23_FetchSkippedAfterBrandOrTermMatches ==
    \A t \in TaskIds :
        Retrieved(t) =>
            /\ (BrandHit(t) \/ MerchantHit(t)) => ~tasks[t].phaseD
            /\ tasks[t].phaseD =>
                  /\ CategoryOf(t) # NoCategory
                  /\ Len(tasks[t].beforeD) < 50
                  /\ ~BrandHit(t)
                  /\ ~MerchantHit(t)

\* the candidates inside the intent's date range
InRange(t) ==
    {i \in Members(tasks[t].txns) :
        /\ StartOf(t) # NoDate => Txn(i).date >= StartOf(t)
        /\ EndOf(t) # NoDate => Txn(i).date <= EndOf(t)}

\* C24: the intent's category (a member of the category enum) is a hard
\* filter exactly when the query has no brand keyword and no required
\* tags: then the returned transactions are the candidates in the date
\* range that have the category; with a brand keyword or a required tag
\* every candidate in the date range is returned whatever its category,
\* so a brand query returns its matches across all categories.
C24_CategoryFilterOnlyWithoutBrandAndTags ==
    \A t \in TaskIds :
        Retrieved(t) =>
            LET returned == Members(tasks[t].result)
                inRange == InRange(t)
                category == CategoryOf(t)
                keywords == KeywordsOf(t)
                start == StartOf(t)
                end == EndOf(t)
                brandRows == {i \in ledger : \E j \in 1..Len(keywords) :
                                 Contains(Lower(Txn(i).description), Lower(keywords[j]))}
            IN  Cardinality(inRange) <= ResultLimit =>
                IF category # NoCategory /\ keywords = <<>> /\ RequiredOf(t) = <<>>
                THEN returned = {i \in inRange : Txn(i).category = category}
                ELSE /\ returned = inRange
                     /\ \A i \in brandRows :
                           (/\ start # NoDate => Txn(i).date >= start
                            /\ end # NoDate => Txn(i).date <= end)
                           => i \in returned

\* a brand query whose intent names a category returned a brand match of
\* another category
C24_Witness ==
    \E t \in TaskIds :
        /\ tasks[t].status = 200
        /\ KeywordsOf(t) # <<>>
        /\ CategoryOf(t) # NoCategory
        /\ \E i \in Members(tasks[t].result) :
              /\ HoldsBrandKeyword(t, Txn(i))
              /\ Txn(i).category # CategoryOf(t)
        /\ \E i \in Members(tasks[t].result) : Txn(i).category = CategoryOf(t)

\* C25: every returned transaction lies inside the date range of the
\* intent the call retrieves with (the range parsed from the query where
\* there is one, the analyzer's dates otherwise): not before its start
\* date when one is set and not after its end date when one is set,
\* whichever phase added it.
C25_ReturnedInsideDateRange ==
    \A t \in TaskIds :
        Retrieved(t) =>
            LET start == StartOf(t)
                end == EndOf(t)
                rel == tasks[t].rel
            IN  \A i \in Members(tasks[t].result) :
                    /\ start # NoDate => Txn(i).date >= start
                    /\ end # NoDate => Txn(i).date <= end
                    /\ rel.start # NoDate => Txn(i).date >= rel.start
                    /\ rel.end # NoDate => Txn(i).date <= rel.end

\* a brand query with an end date: the brand search added a row dated
\* after it, which was not returned, and an earlier row, which was
C25_Witness ==
    \E t \in TaskIds :
        /\ tasks[t].status = 200
        /\ KeywordsOf(t) # <<>>
        /\ EndOf(t) # NoDate
        /\ tasks[t].result # <<>>
        /\ \E i \in Members(tasks[t].txns) \ Members(tasks[t].result) :
              HoldsBrandKeyword(t, Txn(i)) /\ Txn(i).date > EndOf(t)

\* C29: in the term search a term is recorded as matched as soon as one
\* search hit outside the candidates holds the term or its variant in its
\* description, before the tag filter: a term whose hits the tag filter
\* all rejects still counts as matched (the semantic search and the
\* category fetch are then skipped although nothing was added), and a
\* term whose hits the brand search had all added does not count.
C29_MatchedBeforeTagFilter ==
    \A t \in TaskIds :
        Retrieved(t) =>
            LET matched == tasks[t].matched
                keywords == KeywordsOf(t)
                brandRows == {i \in ledger : \E j \in 1..Len(keywords) :
                                 Contains(Lower(Txn(i).description), Lower(keywords[j]))}
                holds(i, term) == \E v \in 1..2 :
                    Contains(Lower(Txn(i).description), Lower(SearchVariants(term)[v]))
                terms == MerchantTermsOf(t)
            IN  /\ \A k \in 1..Len(matched) :
                      /\ InList(terms, matched[k])
                      /\ \E i \in ledger \ brandRows : holds(i, matched[k])
                /\ \A k \in 1..Len(terms) :
                      (\A i \in ledger : holds(i, terms[k]) => i \in brandRows)
                          => ~InList(matched, terms[k])
                /\ (\E k \in 1..Len(terms) : \E i \in ledger \ brandRows : holds(i, terms[k]))
                      => matched # <<>>
                /\ matched # <<>> =>
                      /\ tasks[t].indexCalls = 0
                      /\ ~tasks[t].phaseD
                      /\ \A i \in Members(tasks[t].txns) \ brandRows :
                            /\ \E k \in 1..Len(terms) : holds(i, terms[k])
                            /\ HasRequiredTags(Txn(i), RequiredOf(t))

\* a query with required tags and a category: the term's hits held the
\* term and all failed the tag filter; the term counted as matched,
\* neither the index nor the category fetch was used, and nothing was
\* returned
C29_Witness ==
    \E t \in TaskIds :
        /\ tasks[t].status = 200
        /\ tasks[t].matched # <<>>
        /\ tasks[t].txns = <<>>
        /\ RequiredOf(t) # <<>>
        /\ CategoryOf(t) # NoCategory
        /\ tasks[t].indexCalls = 0 /\ ~tasks[t].phaseD
        /\ \E i \in ledger : Txn(i).category = CategoryOf(t)

(***************************************************************************)
(* SpecRepeat: two calls, the second arriving once the first has started,  *)
(* over a cache that is empty or full, with the clock advancing between    *)
(***************************************************************************)

RepeatQueries == { <<"f","o","o","d">>, <<" ","F","o","o","d","\n">>, <<"Q","0","0","0","1">> }

\* seconds the clock may advance in one step
RepeatTicks == {_CACHE_TTL - 1, _CACHE_TTL}

InitRepeat ==
    /\ cache \in {<<>>, WarmCache("asc", CacheLimit)}
    /\ now = StartTime
    /\ last = NoOp
    /\ hist = [k \in {CacheKey(q) : q \in RepeatQueries} |->
                 IF CacheHas(cache, k)
                 THEN [put |-> TRUE, intent |-> CacheAt(cache, k).intent,
                       at |-> CacheAt(cache, k).ts]
                 ELSE NoPut]
    /\ steps = 0
    /\ tasks = [t \in TaskIds |-> NoTask]
    /\ ledger = {2, 4, 5}

NextRepeat ==
    \/ \E t \in {1, 2}, q \in RepeatQueries : Arrives(t) /\ Start(t, q, TRUE)
    \/ \E t \in {1, 2}, r \in ConcReplies : IntentDone(t, r, TRUE)
    \/ \E t \in {1, 2}, o \in ConcOutcomes : SemanticDone(t, o, TRUE)
    \/ \E t \in {1, 2} : SummaryDone(t, TRUE)
    \/ \E d \in RepeatTicks : Tick(d)

SpecRepeat == InitRepeat /\ [][NextRepeat]_vars

\* the call t arrives in this step
Begins(t) == tasks[t].pc = "idle" /\ tasks'[t].pc # "idle"

\* the last analysis of the text k failed and its default was cached less
\* than 3600 seconds ago
DefaultCachedFor(k) ==
    /\ hist[k].put
    /\ hist[k].intent = DefaultIntent
    /\ now - hist[k].at < _CACHE_TTL

\* the call t was served the default from the cache, without an intent
\* LLM call
ServedDefault(t) ==
    /\ tasks'[t].hit
    /\ tasks'[t].intentCalls = 0
    /\ tasks'[t].pc # "intent"
    /\ tasks'[t].intent = DefaultIntent

\* C28 as stated: after a query whose intent LLM call failed, every
\* further query with the same normalized text within 3600 seconds makes
\* no intent LLM call and runs with the cached default; one call makes at
\* most one intent LLM call, and none on a cache hit.
C28_DefaultServedWithinTtl ==
    [][\A t \in TaskIds :
          /\ tasks'[t].intentCalls <= 1
          /\ tasks'[t].hit => tasks'[t].intentCalls = 0
          /\ (Begins(t) /\ DefaultCachedFor(CacheKey(tasks'[t].query))) =>
                ServedDefault(t)]_vars

\* C28 amended: the default of a failed analysis is cached like any intent;
\* a further query with the same normalized text less than 3600 seconds
\* later, while the size cap has not evicted the entry, makes no intent
\* LLM call and runs with the cached default; one call makes at most one
\* intent LLM call, and none on a cache hit.
C28_DefaultServedWhileHeld ==
    [][\A t \in TaskIds :
          /\ tasks'[t].intentCalls <= 1
          /\ tasks'[t].hit => tasks'[t].intentCalls = 0
          /\ (/\ Begins(t)
              /\ DefaultCachedFor(CacheKey(tasks'[t].query))
              /\ CacheHas(cache, CacheKey(tasks'[t].query))) =>
                ServedDefault(t)]_vars

\* the first call's analysis failed; 3599 seconds later the second call,
\* for the same text in other letters, was served the default from the
\* cache and made no intent LLM call
C28_Witness ==
    /\ tasks[1].caught /\ tasks[1].put /\ tasks[1].intentCalls = 1
    /\ tasks[2].pc # "idle"
    /\ tasks[2].query # tasks[1].query
    /\ CacheKey(tasks[2].query) = CacheKey(tasks[1].query)
    /\ tasks[2].hit /\ tasks[2].intentCalls = 0
    /\ tasks[2].intent = DefaultIntent
    /\ now - hist[CacheKey(tasks[1].query)].at = _CACHE_TTL - 1

====
